---- MODULE Spec2Model ----
(***************************************************************************)
(* Model of the Linear -> Kilo webhook service (src/src/main.py,           *)
(* src/src/linear/webhook_handler.py, src/src/linear/models.py,            *)
(* src/src/kilo/client.py, src/src/config.py).                             *)
(*                                                                         *)
(* Python values are modelled as follows.                                  *)
(*   - An optional value (X | None) is a sequence of length 0 or 1:        *)
(*     None is << >>, a present value x is <<x>>.                          *)
(*   - The Authorization header and the bearer token are strings, written  *)
(*     as sequences of atoms.  An atom is an indivisible piece of text     *)
(*     (a word, a space, a tab).  No atom is a prefix of another one, so   *)
(*     two sequences of atoms are equal exactly when the strings they      *)
(*     spell are equal.                                                    *)
(*   - An e-mail address and a routing key are strings written as          *)
(*     sequences of one-character strings.                                 *)
(*   - A signature header is a string holding at most one hex digest,     *)
(*     written as a sequence of length 0 or 1 ("" is << >>).               *)
(*   - The result of a call that may raise is a record                     *)
(*     [exc |-> name of the exception or "none", val |-> returned value].  *)
(***************************************************************************)
EXTENDS Integers, Sequences, FiniteSets, TLC

VARIABLES
  settings,         \* src/config.py: the global Settings instance
  started,          \* main.py: the three global handlers are constructed
  active_sessions,  \* kilo/client.py: AgentRouter.active_sessions
  req,              \* the webhook request handled last (headers, body)
  resp,             \* the outcome of handling req
  call,             \* pure-function specifications: function, arguments, result
  tasks,            \* the submissions in progress (coroutines of submit_task)
  snapshot          \* the dict a caller holds from get_active_sessions

vars == <<settings, started, active_sessions, req, resp, call, tasks, snapshot>>

----------------------------------------------------------------------------
(* Bounds of the model.                                                     *)

\* Longest Authorization header value, in atoms.
MaxHeaderLen == 3
\* Longest e-mail address, in characters.
MaxEmailLen == 3

----------------------------------------------------------------------------
(* Python values.                                                           *)

None == << >>
Some(x) == <<x>>
Val(o) == o[1]

\* The result of a call: a returned value or a raised exception.
Ret(v) == [exc |-> "none", val |-> v]
Raise(e) == [exc |-> e, val |-> FALSE]

\* All sequences over S of length 0..n.
SeqsUpTo(S, n) == UNION {[1..k -> S] : k \in 0..n}

----------------------------------------------------------------------------
(* Text of the Authorization header and of the bearer token.                *)

WhitespaceAtoms == {" ", "\t"}
\* "tok-e" stands for a token holding a character outside ASCII.
NonAsciiAtoms == {"tok-e"}
WordAtoms == {"Bearer", "bearer", "Basic", "tok", "bad"} \cup NonAsciiAtoms
Atoms == WordAtoms \cup WhitespaceAtoms

\* str.lower(), atom by atom.
LowerAtom(a) ==
  CASE a = "Bearer" -> "bearer"
    [] a = "Basic" -> "basic"
    [] OTHER -> a

Lower(s) == [i \in 1..Len(s) |-> LowerAtom(s[i])]

\* str.split() without arguments: the maximal runs of non-whitespace text.
RECURSIVE SplitFrom(_, _, _, _)
SplitFrom(s, i, word, parts) ==
  IF i > Len(s)
    THEN IF word = << >> THEN parts ELSE Append(parts, word)
    ELSE IF s[i] \in WhitespaceAtoms
      THEN SplitFrom(s, i + 1, << >>,
                     IF word = << >> THEN parts ELSE Append(parts, word))
      ELSE SplitFrom(s, i + 1, Append(word, s[i]), parts)

Split(s) == SplitFrom(s, 1, << >>, << >>)

IsAscii(s) == \A i \in 1..Len(s) : s[i] \notin NonAsciiAtoms

\* hmac.compare_digest on two str: TypeError unless both are ASCII only.
compare_digest(a, b) ==
  IF ~IsAscii(a) \/ ~IsAscii(b) THEN Raise("TypeError") ELSE Ret(a = b)

\* request.headers.get(name): the headers of a request are a record of
\* optional values, None when the header is absent.
HeadersGet(headers, name) == headers[name]

\* Python truthiness of an optional string: None and "" are falsy.
Falsy(o) == IF o = None THEN TRUE ELSE Val(o) = << >>

----------------------------------------------------------------------------
(* LinearWebhookHandler.verify_bearer_token                                 *)

verify_bearer_token(bearer_token, headers) ==
  IF Falsy(bearer_token) THEN Ret(TRUE)
  ELSE LET auth_header == HeadersGet(headers, "authorization") IN
    IF Falsy(auth_header) THEN Ret(FALSE)
    ELSE LET parts == Split(Val(auth_header)) IN
      IF Len(parts) # 2 \/ Lower(parts[1]) # <<"bearer">> THEN Ret(FALSE)
      ELSE LET r == compare_digest(parts[2], Val(bearer_token)) IN
        IF r.exc # "none" THEN r
        ELSE IF ~r.val THEN Ret(FALSE) ELSE Ret(TRUE)

----------------------------------------------------------------------------
(* LinearWebhookHandler.verify_signature                                    *)

\* hmac.new(secret.encode(), body, hashlib.sha256).hexdigest(): the digest is
\* the pair of the key and the message (two digests are equal exactly when
\* key and message are: HMAC-SHA256 is taken to be collision free).  A
\* signature text is a digest with no byte changed (flip "none"), with one
\* byte changed to another ASCII character ("low"), or with one byte changed
\* to a character outside ASCII, as flipping its top bit does ("high").
hexdigest(key, msg) == <<[key |-> key, msg |-> msg, flip |-> "none"]>>

IsAsciiSig(s) == \A i \in 1..Len(s) : s[i].flip # "high"

\* hmac.compare_digest on the signature header and the expected digest.
compare_digest_sig(a, b) ==
  IF ~IsAsciiSig(a) \/ ~IsAsciiSig(b) THEN Raise("TypeError") ELSE Ret(a = b)

verify_signature(webhook_secret, headers, body) ==
  IF Falsy(webhook_secret) THEN Ret(TRUE)
  ELSE LET signature == HeadersGet(headers, "linear-signature") IN
    IF Falsy(signature) THEN Ret(FALSE)
    ELSE LET expected == hexdigest(Val(webhook_secret), body)
             r == compare_digest_sig(Val(signature), expected) IN
      IF r.exc # "none" THEN r
      ELSE IF ~r.val THEN Ret(FALSE) ELSE Ret(TRUE)

----------------------------------------------------------------------------
(* Webhook bodies and src/linear/models.py                                  *)

LinearAction == {"create", "update", "delete", "remove"}
LinearWebhookType == {"Issue", "Comment", "Project", "Cycle"}

\* The data of a webhook, as json.loads gives it:
\*   kind "absent"  no data key, or null
\*   kind "scalar"  a value that is neither an object nor null
\*   kind "dict"    an object that does not validate as LinearIssueData
\*                  (id, identifier or title missing or mistyped)
\*   kind "issue"   an object that validates as LinearIssueData
NoIssueFields ==
  [id |-> << >>, identifier |-> << >>, title |-> << >>, description |-> None,
   assignee |-> None, url |-> None]

DataOf(kind) == [kind |-> kind] @@ NoIssueFields

IssueOf(identifier, title, description, assignee, url) ==
  [kind |-> "issue", id |-> <<"i", "d">>, identifier |-> identifier,
   title |-> title, description |-> description, assignee |-> assignee,
   url |-> url]

\* A request body: bytes that are not UTF-8 text, text that is not JSON, JSON
\* that is not an object, or a JSON object with its action, type and data
\* keys.
BodyOf(json, action, type, data) ==
  [json |-> json, action |-> action, type |-> type, data |-> data]

InvalidJsonBody == BodyOf("invalid", None, None, DataOf("absent"))
NotMappingBody == BodyOf("array", None, None, DataOf("absent"))
UndecodableBody == BodyOf("undecodable", None, None, DataOf("absent"))

\* LinearWebhookRequest(**data): pydantic's validation of the three fields.
\* The data field is LinearIssueData | dict[str, Any] | None: an object that
\* validates as an issue becomes a LinearIssueData (tests/test_linear_models.py
\* test_issue_assignment_detection), any other object stays a dict.
ValidWebhookFields(body) ==
  /\ body.action = None \/ Val(body.action) \in LinearAction
  /\ body.type = None \/ Val(body.type) \in LinearWebhookType
  /\ body.data.kind # "scalar"

LinearWebhookRequest(body) ==
  [action |-> body.action, type |-> body.type,
   data |-> IF body.data.kind = "absent" THEN DataOf("none") ELSE body.data]

NoWebhook == [action |-> None, type |-> None, data |-> DataOf("none")]

\* LinearWebhookHandler.parse_payload: the parsed request, HTTPException 400
\* for JSONDecodeError and ValidationError; the UnicodeDecodeError json.loads
\* raises on bytes that are not UTF-8 and the TypeError of ** applied to a
\* JSON value that is not a mapping are not caught.
parse_payload(body) ==
  IF body.json = "undecodable"
    THEN [exc |-> "UnicodeDecodeError", detail |-> "", val |-> NoWebhook]
  ELSE IF body.json = "invalid"
    THEN [exc |-> "HTTPException", detail |-> "Invalid JSON", val |-> NoWebhook]
  ELSE IF body.json # "object"
    THEN [exc |-> "TypeError", detail |-> "", val |-> NoWebhook]
  ELSE IF ~ValidWebhookFields(body)
    THEN [exc |-> "HTTPException", detail |-> "Invalid payload structure",
          val |-> NoWebhook]
    ELSE [exc |-> "none", detail |-> "", val |-> LinearWebhookRequest(body)]

isinstance_LinearIssueData(data) == data.kind = "issue"

\* LinearWebhookRequest.is_issue_assigned
is_issue_assigned(webhook) ==
  IF webhook.type # Some("Issue") THEN FALSE
  ELSE IF webhook.action \notin {Some("create"), Some("update")} THEN FALSE
  ELSE IF ~isinstance_LinearIssueData(webhook.data) THEN FALSE
  ELSE webhook.data.assignee # None

\* LinearWebhookRequest.get_assignee_email
get_assignee_email(webhook) ==
  IF isinstance_LinearIssueData(webhook.data) /\ webhook.data.assignee # None
    THEN webhook.data.assignee
    ELSE None

\* LinearWebhookRequest.get_issue_summary
get_issue_summary(webhook) ==
  IF ~isinstance_LinearIssueData(webhook.data) THEN DataOf("empty")
  ELSE [webhook.data EXCEPT !.kind = "summary"]

----------------------------------------------------------------------------
(* LinearWebhookHandler.should_process                                      *)

\* should_process with the action tested before the entity type.
should_process_action_first(webhook) ==
  IF webhook.action \notin {Some("create"), Some("update")}
    THEN <<FALSE, <<"Ignoring action: ", webhook.action>> >>
  ELSE IF webhook.type # Some("Issue")
    THEN <<FALSE, <<"Ignoring non-issue webhook: ", webhook.type>> >>
  ELSE IF ~is_issue_assigned(webhook)
    THEN <<FALSE, <<"Issue not assigned to anyone">> >>
  ELSE <<TRUE, <<"Processing assigned issue">> >>

should_process(webhook) ==
  IF webhook.type # Some("Issue")
    THEN <<FALSE, <<"Ignoring non-issue webhook: ", webhook.type>> >>
  ELSE IF webhook.action \notin {Some("create"), Some("update")}
    THEN <<FALSE, <<"Ignoring action: ", webhook.action>> >>
  ELSE IF ~is_issue_assigned(webhook)
    THEN <<FALSE, <<"Issue not assigned to anyone">> >>
  ELSE <<TRUE, <<"Processing assigned issue">> >>

----------------------------------------------------------------------------
(* TaskRouter                                                               *)

\* The literal routing key "default".
DefaultKey == <<"d", "e", "f", "a", "u", "l", "t">>

\* assignee_email.split("@")[-1]: the text after the last "@", the whole
\* text when it holds no "@".
RECURSIVE LastPartFrom(_, _, _)
LastPartFrom(s, i, part) ==
  IF i > Len(s) THEN part
  ELSE IF s[i] = "@" THEN LastPartFrom(s, i + 1, << >>)
  ELSE LastPartFrom(s, i + 1, Append(part, s[i]))

SplitAtLast(s) == LastPartFrom(s, 1, << >>)

\* dict.get(key): None when the key is absent.
DictGet(d, key) == IF key \in DOMAIN d THEN Some(d[key]) ELSE None

\* get_agent_for_assignee with the domain entry tried before the direct one.
get_agent_for_assignee_domain_first(agent_mapping, assignee_email) ==
  LET domain == SplitAtLast(assignee_email)
      domain_key == <<"@">> \o domain IN
  IF domain_key \in DOMAIN agent_mapping
    THEN Some(agent_mapping[domain_key])
  ELSE IF assignee_email \in DOMAIN agent_mapping
    THEN Some(agent_mapping[assignee_email])
    ELSE DictGet(agent_mapping, DefaultKey)

\* TaskRouter.get_agent_for_assignee
get_agent_for_assignee(agent_mapping, assignee_email) ==
  IF assignee_email \in DOMAIN agent_mapping
    THEN Some(agent_mapping[assignee_email])
  ELSE LET domain == SplitAtLast(assignee_email)
           domain_key == <<"@">> \o domain IN
    IF domain_key \in DOMAIN agent_mapping
      THEN Some(agent_mapping[domain_key])
      ELSE DictGet(agent_mapping, DefaultKey)

\* Python truthiness of an optional agent id or text: None and "" are falsy.
FalsyStr(o) == IF o = None THEN TRUE ELSE Val(o) = ""

NoRouting ==
  [routed |-> FALSE, reason |-> None, assignee |-> None, agent_id |-> None,
   issue |-> DataOf("empty"), routing_method |-> None]

\* route_task recording the direct method whenever no domain entry matched.
route_task_method_by_domain(agent_mapping, webhook) ==
  LET assignee_email == get_assignee_email(webhook) IN
  IF Falsy(assignee_email)
    THEN [NoRouting EXCEPT !.reason = Some(<<"No assignee email">>)]
  ELSE LET agent_id == get_agent_for_assignee(agent_mapping, Val(assignee_email)) IN
    IF FalsyStr(agent_id)
      THEN [NoRouting EXCEPT
              !.reason = Some(<<"No agent mapping for ", Val(assignee_email)>>),
              !.assignee = assignee_email]
      ELSE [routed |-> TRUE, reason |-> None, assignee |-> assignee_email,
            agent_id |-> agent_id, issue |-> get_issue_summary(webhook),
            routing_method |->
              IF <<"@">> \o SplitAtLast(Val(assignee_email))
                   \notin DOMAIN agent_mapping
                THEN Some("email_direct") ELSE Some("domain_default")]

\* route_task routing to whatever the mapping holds, an empty agent id too.
route_task_routes_empty_agent(agent_mapping, webhook) ==
  LET assignee_email == get_assignee_email(webhook) IN
  IF Falsy(assignee_email)
    THEN [NoRouting EXCEPT !.reason = Some(<<"No assignee email">>)]
  ELSE LET agent_id == get_agent_for_assignee(agent_mapping, Val(assignee_email)) IN
    IF agent_id = None
      THEN [NoRouting EXCEPT
              !.reason = Some(<<"No agent mapping for ", Val(assignee_email)>>),
              !.assignee = assignee_email]
      ELSE [routed |-> TRUE, reason |-> None, assignee |-> assignee_email,
            agent_id |-> agent_id, issue |-> get_issue_summary(webhook),
            routing_method |->
              IF Val(assignee_email) \in DOMAIN agent_mapping
                THEN Some("email_direct") ELSE Some("domain_default")]

\* TaskRouter.route_task: the returned dict, an absent key written None.
route_task(agent_mapping, webhook) ==
  LET assignee_email == get_assignee_email(webhook) IN
  IF Falsy(assignee_email)
    THEN [NoRouting EXCEPT !.reason = Some(<<"No assignee email">>)]
  ELSE LET agent_id == get_agent_for_assignee(agent_mapping, Val(assignee_email)) IN
    IF FalsyStr(agent_id)
      THEN [NoRouting EXCEPT
              !.reason = Some(<<"No agent mapping for ", Val(assignee_email)>>),
              !.assignee = assignee_email]
      ELSE [routed |-> TRUE, reason |-> None, assignee |-> assignee_email,
            agent_id |-> agent_id, issue |-> get_issue_summary(webhook),
            routing_method |->
              IF Val(assignee_email) \in DOMAIN agent_mapping
                THEN Some("email_direct") ELSE Some("domain_default")]

----------------------------------------------------------------------------
(* src/config.py                                                            *)

\* The fields the Settings class declares.
SettingsFields ==
  {"app_name", "debug", "host", "port", "linear_api_key",
   "linear_webhook_secret", "kilo_api_key", "kilo_cloud_enabled",
   "kilo_cloud_url", "agent_mapping", "webhook_bearer_token",
   "webhook_auth_required", "admin_api_key", "telegram_allowed_users"}

\* settings.<name>: AttributeError for a name the class does not declare.
\* The fields the model does not carry read as their name.
SettingsGetattr(name) ==
  IF name \notin SettingsFields THEN Raise("AttributeError")
  ELSE IF name \in DOMAIN settings THEN Ret(settings[name]) ELSE Ret(name)

----------------------------------------------------------------------------
(* AgentRouter._build_task_prompt and _generate_branch_name                 *)

\* build_task_prompt with the url part appended before the description part.
build_task_prompt_url_first(issue_data) ==
  <<  <<"Task from Linear: ", issue_data.identifier>>,
      <<"Title: ", issue_data.title>> >>
  \o (IF Falsy(issue_data.url) THEN << >>
      ELSE << <<"Linear URL: ", Val(issue_data.url)>> >>)
  \o (IF Falsy(issue_data.description) THEN << >>
      ELSE << <<"Description:\n", Val(issue_data.description)>> >>)
  \o << <<"\nPlease analyze this task and implement the necessary changes.">> >>

\* The parts of the prompt, in the order they are joined.
build_task_prompt(issue_data) ==
  <<  <<"Task from Linear: ", issue_data.identifier>>,
      <<"Title: ", issue_data.title>> >>
  \o (IF Falsy(issue_data.description) THEN << >>
      ELSE << <<"Description:\n", Val(issue_data.description)>> >>)
  \o (IF Falsy(issue_data.url) THEN << >>
      ELSE << <<"Linear URL: ", Val(issue_data.url)>> >>)
  \o << <<"\nPlease analyze this task and implement the necessary changes.">> >>

\* The characters of identifiers and titles in the model.
UpperChars == {"T", "F"}
LowerChars == {"t", "f", "x"}
DigitChars == {"1"}
SpaceChars == {" "}
HyphenChars == {"-"}
PunctChars == {"!"}
WordChars == UpperChars \cup LowerChars \cup DigitChars \cup {"_"}

LowerChar(c) == CASE c = "T" -> "t" [] c = "F" -> "f" [] OTHER -> c
LowerText(s) == [i \in 1..Len(s) |-> LowerChar(s[i])]

\* re.sub(r'[^\w\s-]', '', s)
StripSpecial(s) ==
  SelectSeq(s, LAMBDA c : c \in WordChars \cup SpaceChars \cup HyphenChars)

\* re.sub(r'[-\s]+', '-', s)
RECURSIVE CollapseFrom(_, _, _)
CollapseFrom(s, i, out) ==
  IF i > Len(s) THEN out
  ELSE IF s[i] \in SpaceChars \cup HyphenChars
    THEN IF i > 1 /\ s[i - 1] \in SpaceChars \cup HyphenChars
      THEN CollapseFrom(s, i + 1, out)
      ELSE CollapseFrom(s, i + 1, Append(out, "-"))
    ELSE CollapseFrom(s, i + 1, Append(out, s[i]))

Collapse(s) == CollapseFrom(s, 1, << >>)

\* str.strip('-')
RECURSIVE StripHyphens(_)
StripHyphens(s) ==
  IF s # << >> /\ Head(s) = "-" THEN StripHyphens(Tail(s))
  ELSE IF s # << >> /\ s[Len(s)] = "-" THEN StripHyphens(SubSeq(s, 1, Len(s) - 1))
  ELSE s

SlugMaxLen == 30

safe_title(title) ==
  LET t == StripHyphens(Collapse(StripSpecial(LowerText(title))))
  IN SubSeq(t, 1, IF Len(t) < SlugMaxLen THEN Len(t) ELSE SlugMaxLen)

generate_branch_name(issue_data) ==
  <<"l", "i", "n", "e", "a", "r", "/">> \o LowerText(issue_data.identifier)
    \o <<"-">> \o safe_title(issue_data.title)

----------------------------------------------------------------------------
(* KiloCloudClient.create_session and AgentRouter.submit_task               *)

NoSession ==
  [session_id |-> None, status |-> "", mode |-> "", branch |-> None]

\* hash(task) & 0xFFFFFFFF, as text: the hash of a prompt is written as the
\* prompt itself under a tag (distinct prompts are taken to hash apart).
hash32(task) == <<"hash32", task>>

\* The answers of the remote agent API to POST /api/v1/sessions.
NetOutcomes ==
  {[kind |-> "ok", id |-> "remote-1"],
   [kind |-> "http_error", id |-> ""],
   [kind |-> "network_error", id |-> ""]}

\* The prefix of the ids of the sessions made without the remote API.
LocalPrefix == "local-"

\* str.startswith on a string written as atoms.
StartsWith(s, atom) == Len(s) >= 1 /\ s[1] = atom

\* The client is in local mode: the remote API is disabled or has no key.
LocalMode == ~settings.kilo_cloud_enabled \/ Falsy(settings.kilo_api_key)

\* create_session going local only when the remote API is disabled, whatever
\* the key.
create_session_ignores_missing_key(task, branch_name, net) ==
  IF ~settings.kilo_cloud_enabled
    THEN [exc |-> "none", posted |-> FALSE, sent |-> << >>,
          val |-> [session_id |-> Some(<<LocalPrefix, hash32(task)>>),
                   status |-> "queued", mode |-> "local",
                   branch |-> Some(branch_name)]]
  ELSE IF net.kind = "ok"
    THEN [exc |-> "none", posted |-> TRUE, sent |-> <<"POST /api/v1/sessions">>,
          val |-> [session_id |-> Some(<<net.id>>), status |-> "created",
                   mode |-> "cloud", branch |-> None]]
    ELSE [exc |-> IF net.kind = "http_error" THEN "HTTPStatusError"
                                              ELSE "RequestError",
          posted |-> TRUE, sent |-> <<"POST /api/v1/sessions">>,
          val |-> NoSession]

\* create_session sending the POST a second time when the first one failed.
create_session_retries(task, branch_name, net) ==
  IF LocalMode
    THEN [exc |-> "none", posted |-> FALSE, sent |-> << >>,
          val |-> [session_id |-> Some(<<LocalPrefix, hash32(task)>>),
                   status |-> "queued", mode |-> "local",
                   branch |-> Some(branch_name)]]
  ELSE IF net.kind = "ok"
    THEN [exc |-> "none", posted |-> TRUE, sent |-> <<"POST /api/v1/sessions">>,
          val |-> [session_id |-> Some(<<net.id>>), status |-> "created",
                   mode |-> "cloud", branch |-> None]]
    ELSE [exc |-> IF net.kind = "http_error" THEN "HTTPStatusError"
                                              ELSE "RequestError",
          posted |-> TRUE,
          sent |-> <<"POST /api/v1/sessions", "POST /api/v1/sessions">>,
          val |-> NoSession]

\* KiloCloudClient.create_session: the session, or the exception raised;
\* sent lists the requests made to the remote API, posted is whether there
\* was one.
create_session(task, branch_name, net) ==
  IF LocalMode
    THEN [exc |-> "none", posted |-> FALSE, sent |-> << >>,
          val |-> [session_id |-> Some(<<LocalPrefix, hash32(task)>>),
                   status |-> "queued", mode |-> "local",
                   branch |-> Some(branch_name)]]
  ELSE IF net.kind = "ok"
    THEN [exc |-> "none", posted |-> TRUE, sent |-> <<"POST /api/v1/sessions">>,
          val |-> [session_id |-> Some(<<net.id>>), status |-> "created",
                   mode |-> "cloud", branch |-> None]]
    ELSE [exc |-> IF net.kind = "http_error" THEN "HTTPStatusError"
                                              ELSE "RequestError",
          posted |-> TRUE, sent |-> <<"POST /api/v1/sessions">>,
          val |-> NoSession]

\* get_session_status answering locally whenever create_session would.
get_session_status_uses_local_mode(session_id, net) ==
  IF LocalMode \/ StartsWith(session_id, LocalPrefix)
    THEN [exc |-> "none", sent |-> << >>,
          val |-> [session_id |-> Some(session_id), status |-> "pending",
                   mode |-> "local", branch |-> None]]
  ELSE IF net.kind = "ok"
    THEN [exc |-> "none", sent |-> <<"GET /api/v1/sessions/{id}">>,
          val |-> [session_id |-> Some(<<net.id>>), status |-> "running",
                   mode |-> "remote-json", branch |-> None]]
    ELSE [exc |-> IF net.kind = "http_error" THEN "HTTPStatusError"
                                              ELSE "RequestError",
          sent |-> <<"GET /api/v1/sessions/{id}">>, val |-> NoSession]

\* KiloCloudClient.get_session_status: the status dict, or the exception
\* raised; sent lists the requests made to the remote API.
get_session_status(session_id, net) ==
  IF ~settings.kilo_cloud_enabled \/ StartsWith(session_id, LocalPrefix)
    THEN [exc |-> "none", sent |-> << >>,
          val |-> [session_id |-> Some(session_id), status |-> "pending",
                   mode |-> "local", branch |-> None]]
  ELSE IF net.kind = "ok"
    THEN [exc |-> "none", sent |-> <<"GET /api/v1/sessions/{id}">>,
          val |-> [session_id |-> Some(<<net.id>>), status |-> "running",
                   mode |-> "remote-json", branch |-> None]]
    ELSE [exc |-> IF net.kind = "http_error" THEN "HTTPStatusError"
                                              ELSE "RequestError",
          sent |-> <<"GET /api/v1/sessions/{id}">>, val |-> NoSession]

\* AgentRouter.check_session_status
check_session_status(session_id, net) == get_session_status(session_id, net)

\* AgentRouter.get_active_sessions: dict.copy() makes a new dict with the
\* same keys; each value is the very entry the table holds (shared is the
\* key of the table under which the same object sits).
get_active_sessions ==
  [held |-> TRUE,
   entries |-> [k \in DOMAIN active_sessions |->
                  [shared |-> TRUE, own |-> active_sessions[k]]]]

\* The entry with a branch made of the identifier alone.
SessionEntry_branch_without_title(agent_id, issue_data, branch_name, base_branch, repo) ==
  [agent_id |-> agent_id, issue |-> issue_data,
   branch |-> <<"l", "i", "n", "e", "a", "r", "/">>
                \o LowerText(issue_data.identifier),
   base_branch |-> base_branch, repo |-> repo, created_at |-> "now"]

\* The entry submit_task writes into the session table.
SessionEntry(agent_id, issue_data, branch_name, base_branch, repo) ==
  [agent_id |-> agent_id, issue |-> issue_data, branch |-> branch_name,
   base_branch |-> base_branch, repo |-> repo, created_at |-> "now"]

\* The table rebuilt with the new entry alone.
record_session_replaces_table(sessions, session_id, entry) ==
  [k \in {session_id} |-> entry]

\* setdefault: an id already in the table keeps its entry.
record_session_keeps_first(sessions, session_id, entry) ==
  [k \in DOMAIN sessions \cup {session_id} |->
     IF k \in DOMAIN sessions THEN sessions[k] ELSE entry]

\* An id already in the table has its entry updated field by field, the
\* issue left as it was.
record_session_updates_in_place(sessions, session_id, entry) ==
  [k \in DOMAIN sessions \cup {session_id} |->
     IF k # session_id THEN sessions[k]
     ELSE IF k \in DOMAIN sessions
       THEN [sessions[k] EXCEPT !.agent_id = entry.agent_id,
                                !.branch = entry.branch]
       ELSE entry]

\* self.active_sessions[session_id] = entry
record_session(sessions, session_id, entry) ==
  [k \in DOMAIN sessions \cup {session_id} |->
     IF k = session_id THEN entry ELSE sessions[k]]

\* submit_task letting the exception of create_session through.
submit_task_result_reraises(agent_id, issue_data, repo, branch_name, base_branch, created) ==
  [exc |-> created.exc, success |-> created.exc = "none",
   session |-> created.val, error |-> "", agent_id |-> agent_id,
   issue |-> issue_data,
   sessions |->
     IF created.exc # "none" THEN active_sessions
     ELSE record_session(active_sessions, created.val.session_id,
                         SessionEntry(agent_id, issue_data, branch_name,
                                      base_branch, repo)),
   posted |-> created.posted, sent |-> created.sent]

\* AgentRouter.submit_task, the result of the try block given the outcome
\* of create_session: the returned dict and the session table it leaves.
submit_task_result(agent_id, issue_data, repo, branch_name, base_branch, created) ==
  IF created.exc # "none"
    THEN [exc |-> "none", success |-> FALSE, session |-> NoSession,
          error |-> created.exc, agent_id |-> agent_id, issue |-> issue_data,
          sessions |-> active_sessions, posted |-> created.posted,
          sent |-> created.sent]
    ELSE [exc |-> "none", success |-> TRUE, session |-> created.val,
          error |-> "", agent_id |-> agent_id, issue |-> issue_data,
          sessions |->
            record_session(active_sessions, created.val.session_id,
                           SessionEntry(agent_id, issue_data, branch_name,
                                        base_branch, repo)),
          posted |-> created.posted, sent |-> created.sent]

\* AgentRouter.submit_task, the try block: create_session and its result.
submit_task_try(agent_id, issue_data, repo, branch_name, base_branch, net) ==
  submit_task_result(agent_id, issue_data, repo, branch_name, base_branch,
                     create_session(build_task_prompt(issue_data),
                                    branch_name, net))

\* AgentRouter.submit_task: the returned dict (or the exception that leaves
\* the method), the session table after the call and whether the remote API
\* was called.  settings.default_repo_url and settings.default_base_branch
\* are read before the try block.
submit_task(agent_id, issue_data, net) ==
  LET repo == SettingsGetattr("default_repo_url")
      branch_name == generate_branch_name(issue_data)
      base_branch == SettingsGetattr("default_base_branch")
      failed == [exc |-> "AttributeError", success |-> FALSE,
                 session |-> NoSession, error |-> "", agent_id |-> agent_id,
                 issue |-> issue_data, sessions |-> active_sessions,
                 posted |-> FALSE, sent |-> << >>]
  IN
  IF repo.exc # "none" THEN failed
  ELSE IF base_branch.exc # "none" THEN failed
  ELSE submit_task_try(agent_id, issue_data, repo.val, branch_name,
                       base_branch.val, net)

----------------------------------------------------------------------------
(* main.py: linear_webhook                                                  *)

NoResp ==
  [status |-> 0, kind |-> "none", detail |-> "", body_status |-> "",
   reason |-> None, error |-> "", agent_id |-> None, session |-> NoSession,
   issue |-> DataOf("empty"), branch |-> None, stages |-> << >>,
   posted |-> FALSE, notified |-> FALSE, notify_failed |-> FALSE,
   exc |-> "none", webhook |-> NoWebhook, routing |-> NoRouting]

\* raise HTTPException(status_code, detail)
HTTPException(status, detail, stages) ==
  [NoResp EXCEPT !.status = status, !.kind = "HTTPException",
                 !.detail = detail, !.stages = stages]

\* An exception no handler catches: the framework answers 500.
Unhandled(exc, stages) ==
  [NoResp EXCEPT !.status = 500, !.kind = "unhandled", !.exc = exc,
                 !.detail = "Internal Server Error", !.stages = stages]

\* verify_request going on when the signature check returns false.
verify_request_ignores_signature(headers, body) ==
  LET check_bearer == settings.webhook_auth_required
                        \/ ~Falsy(settings.webhook_bearer_token)
      is_token_valid == verify_bearer_token(settings.webhook_bearer_token, headers)
      s1 == IF check_bearer THEN <<"verify_bearer_token">> ELSE << >>
      is_valid == verify_signature(settings.linear_webhook_secret, headers, body)
      s2 == Append(s1, "verify_signature")
  IN
  IF check_bearer /\ is_token_valid.exc # "none"
    THEN [pass |-> FALSE, stages |-> s1, resp |-> Unhandled(is_token_valid.exc, s1)]
  ELSE IF check_bearer /\ ~is_token_valid.val
    THEN [pass |-> FALSE, stages |-> s1,
          resp |-> HTTPException(401, "Invalid or missing bearer token", s1)]
  ELSE IF is_valid.exc # "none"
    THEN [pass |-> FALSE, stages |-> s2, resp |-> Unhandled(is_valid.exc, s2)]
  ELSE [pass |-> TRUE, stages |-> s2, resp |-> NoResp]

\* linear_webhook, the two verifications: whether the request passed, the
\* response when it did not, and the calls made, in order.
verify_request(headers, body) ==
  LET check_bearer == settings.webhook_auth_required
                        \/ ~Falsy(settings.webhook_bearer_token)
      is_token_valid == verify_bearer_token(settings.webhook_bearer_token, headers)
      s1 == IF check_bearer THEN <<"verify_bearer_token">> ELSE << >>
      is_valid == verify_signature(settings.linear_webhook_secret, headers, body)
      s2 == Append(s1, "verify_signature")
  IN
  IF check_bearer /\ is_token_valid.exc # "none"
    THEN [pass |-> FALSE, stages |-> s1, resp |-> Unhandled(is_token_valid.exc, s1)]
  ELSE IF check_bearer /\ ~is_token_valid.val
    THEN [pass |-> FALSE, stages |-> s1,
          resp |-> HTTPException(401, "Invalid or missing bearer token", s1)]
  ELSE IF is_valid.exc # "none"
    THEN [pass |-> FALSE, stages |-> s2, resp |-> Unhandled(is_valid.exc, s2)]
  ELSE IF ~is_valid.val
    THEN [pass |-> FALSE, stages |-> s2,
          resp |-> HTTPException(401, "Invalid signature", s2)]
  ELSE [pass |-> TRUE, stages |-> s2, resp |-> NoResp]

\* What awaiting telegram_notifier.notify_issue_assigned comes to.
NotifyOutcomes == {"returned", "raised"}

\* submission_response with the notifier awaited outside any try block.
submission_response_notifier_unguarded(webhook_data, routing_result, s6, submission, notify) ==
  IF submission.exc # "none"
    THEN [resp |-> [Unhandled(submission.exc, s6) EXCEPT
                      !.webhook = webhook_data, !.routing = routing_result,
                      !.posted = submission.posted],
          sessions |-> submission.sessions]
  ELSE IF submission.success /\ notify = "raised"
    THEN [resp |-> [Unhandled("Exception", Append(s6, "notify_issue_assigned"))
                      EXCEPT !.webhook = webhook_data,
                             !.routing = routing_result,
                             !.posted = submission.posted,
                             !.notified = TRUE, !.notify_failed = TRUE],
          sessions |-> submission.sessions]
  ELSE IF submission.success
    THEN [resp |-> [NoResp EXCEPT !.status = 202, !.kind = "JSONResponse",
                      !.body_status = "routed",
                      !.agent_id = routing_result.agent_id,
                      !.session = submission.session,
                      !.issue = routing_result.issue,
                      !.branch =
                        IF submission.session.session_id
                             \in DOMAIN submission.sessions
                          THEN Some(submission.sessions[
                                 submission.session.session_id].branch)
                          ELSE None,
                      !.stages = Append(s6, "notify_issue_assigned"),
                      !.posted = submission.posted, !.notified = TRUE,
                      !.webhook = webhook_data, !.routing = routing_result],
          sessions |-> submission.sessions]
    ELSE [resp |-> [NoResp EXCEPT !.status = 500, !.kind = "JSONResponse",
                      !.body_status = "error", !.error = submission.error,
                      !.agent_id = routing_result.agent_id,
                      !.stages = s6, !.posted = submission.posted,
                      !.webhook = webhook_data, !.routing = routing_result],
          sessions |-> submission.sessions]

\* linear_webhook, the response to the outcome of submit_task.  After a
\* successful submission telegram_notifier.notify_issue_assigned is awaited
\* inside try/except Exception: whether it returned or raised, the handler
\* goes on to the 202 response.
submission_response(webhook_data, routing_result, s6, submission, notify) ==
  IF submission.exc # "none"
    THEN [resp |-> [Unhandled(submission.exc, s6) EXCEPT
                      !.webhook = webhook_data, !.routing = routing_result,
                      !.posted = submission.posted],
          sessions |-> submission.sessions]
  ELSE IF submission.success
    THEN [resp |-> [NoResp EXCEPT !.status = 202, !.kind = "JSONResponse",
                      !.body_status = "routed",
                      !.agent_id = routing_result.agent_id,
                      !.session = submission.session,
                      !.issue = routing_result.issue,
                      !.branch =
                        IF submission.session.session_id
                             \in DOMAIN submission.sessions
                          THEN Some(submission.sessions[
                                 submission.session.session_id].branch)
                          ELSE None,
                      !.stages = Append(s6, "notify_issue_assigned"),
                      !.posted = submission.posted, !.notified = TRUE,
                      !.notify_failed = (notify = "raised"),
                      !.webhook = webhook_data, !.routing = routing_result],
          sessions |-> submission.sessions]
    ELSE [resp |-> [NoResp EXCEPT !.status = 500, !.kind = "JSONResponse",
                      !.body_status = "error", !.error = submission.error,
                      !.agent_id = routing_result.agent_id,
                      !.stages = s6, !.posted = submission.posted,
                      !.webhook = webhook_data, !.routing = routing_result],
          sessions |-> submission.sessions]

\* linear_webhook, the submission of a routed task and its response.
submit_routed(webhook_data, routing_result, s5, net, notify) ==
  submission_response(webhook_data, routing_result, Append(s5, "submit_task"),
                      submit_task(Val(routing_result.agent_id),
                                  routing_result.issue, net), notify)

\* process_event going on to the router whatever the classifier decided.
process_event_skips_classifier(webhook_data, s3, net, notify) ==
  LET s4 == Append(s3, "should_process")
      routing_result == route_task(settings.agent_mapping, webhook_data)
      s5 == Append(s4, "route_task")
  IN
  IF ~routing_result.routed
    THEN [resp |-> [NoResp EXCEPT !.status = 200, !.kind = "JSONResponse",
                      !.body_status = "not_routed",
                      !.reason = routing_result.reason,
                      !.stages = s5, !.webhook = webhook_data,
                      !.routing = routing_result],
          sessions |-> active_sessions]
  ELSE submit_routed(webhook_data, routing_result, s5, net, notify)

\* linear_webhook, from the parsed event to the response: the classifier,
\* the router and the submission.
process_event(webhook_data, s3, net, notify) ==
  LET decision == should_process(webhook_data)
      s4 == Append(s3, "should_process")
      routing_result == route_task(settings.agent_mapping, webhook_data)
      s5 == Append(s4, "route_task")
  IN
  IF ~decision[1]
    THEN [resp |-> [NoResp EXCEPT !.status = 200, !.kind = "JSONResponse",
                      !.body_status = "ignored", !.reason = Some(decision[2]),
                      !.stages = s4, !.webhook = webhook_data],
          sessions |-> active_sessions]
  ELSE IF ~routing_result.routed
    THEN [resp |-> [NoResp EXCEPT !.status = 200, !.kind = "JSONResponse",
                      !.body_status = "not_routed",
                      !.reason = routing_result.reason,
                      !.stages = s5, !.webhook = webhook_data,
                      !.routing = routing_result],
          sessions |-> active_sessions]
  ELSE submit_routed(webhook_data, routing_result, s5, net, notify)

\* linear_webhook going on to parse a request that failed a verification.
linear_webhook_parses_unverified(headers, body, net, notify) ==
  LET keep(r) == [resp |-> r, sessions |-> active_sessions]
      verified == verify_request(headers, body)
      parsed == parse_payload(body)
      s3 == Append(verified.stages, "parse_payload")
  IN
  IF ~started
    THEN keep(HTTPException(503, "Service not initialized", << >>))
  ELSE IF parsed.exc = "HTTPException"
    THEN keep(HTTPException(400, parsed.detail, s3))
  ELSE IF parsed.exc # "none"
    THEN keep(Unhandled(parsed.exc, s3))
  ELSE process_event(parsed.val, s3, net, notify)

\* linear_webhook testing the three handlers only after the verifications.
linear_webhook_verifies_first(headers, body, net, notify) ==
  LET keep(r) == [resp |-> r, sessions |-> active_sessions]
      verified == verify_request(headers, body)
      parsed == parse_payload(body)
      s3 == Append(verified.stages, "parse_payload")
  IN
  IF ~verified.pass THEN keep(verified.resp)
  ELSE IF ~started
    THEN keep(HTTPException(503, "Service not initialized", verified.stages))
  ELSE IF parsed.exc = "HTTPException"
    THEN keep(HTTPException(400, parsed.detail, s3))
  ELSE IF parsed.exc # "none"
    THEN keep(Unhandled(parsed.exc, s3))
  ELSE process_event(parsed.val, s3, net, notify)

\* The handler of POST /webhook/linear, from the request to its response:
\* the response and the session table it leaves.  stages lists the calls
\* the handler made, in order.
linear_webhook(headers, body, net, notify) ==
  LET keep(r) == [resp |-> r, sessions |-> active_sessions]
      verified == verify_request(headers, body)
      parsed == parse_payload(body)
      s3 == Append(verified.stages, "parse_payload")
  IN
  IF ~started
    THEN keep(HTTPException(503, "Service not initialized", << >>))
  ELSE IF ~verified.pass THEN keep(verified.resp)
  ELSE IF parsed.exc = "HTTPException"
    THEN keep(HTTPException(400, parsed.detail, s3))
  ELSE IF parsed.exc # "none"
    THEN keep(Unhandled(parsed.exc, s3))
  ELSE process_event(parsed.val, s3, net, notify)

----------------------------------------------------------------------------
(* main.py: verify_admin_auth and the admin endpoints                       *)

\* verify_admin_auth, the dependency of the three admin endpoints: True, or
\* the HTTPException raised, or the TypeError of compare_digest.
verify_admin_auth(x_api_key) ==
  IF Falsy(settings.admin_api_key) THEN [exc |-> "none", status |-> 0, detail |-> ""]
  ELSE IF Falsy(x_api_key)
    THEN [exc |-> "HTTPException", status |-> 401,
          detail |-> "Missing X-API-Key header"]
  ELSE LET same == compare_digest(Val(x_api_key), Val(settings.admin_api_key)) IN
    IF same.exc # "none" THEN [exc |-> same.exc, status |-> 500, detail |-> ""]
    ELSE IF ~same.val
      THEN [exc |-> "HTTPException", status |-> 403, detail |-> "Invalid API key"]
      ELSE [exc |-> "none", status |-> 0, detail |-> ""]

\* The answer to an admin request: status code, how it came about, and the
\* body of a result.
AdminResponse(status, kind, detail, body) ==
  [status |-> status, kind |-> kind, detail |-> detail, body |-> body]

NoBody == [of |-> "none"]

\* GET /sessions
list_sessions ==
  IF ~started
    THEN AdminResponse(503, "HTTPException", "Service not initialized", NoBody)
    ELSE AdminResponse(200, "result", "",
           [of |-> "sessions", sessions |-> get_active_sessions.entries,
            count |-> Cardinality(DOMAIN get_active_sessions.entries)])

\* GET /sessions/{session_id}
get_session(session_id, net) ==
  IF ~started
    THEN AdminResponse(503, "HTTPException", "Service not initialized", NoBody)
  ELSE LET status == check_session_status(session_id, net) IN
    IF status.exc # "none"
      THEN AdminResponse(500, "unhandled", status.exc, NoBody)
      ELSE AdminResponse(200, "result", "",
             [of |-> "session", session |-> status.val])

\* GET /config
get_config ==
  AdminResponse(200, "result", "",
    [of |-> "config", kilo_cloud_enabled |-> settings.kilo_cloud_enabled,
     webhook_auth_required |-> settings.webhook_auth_required,
     webhook_bearer_configured |-> settings.webhook_bearer_token # None,
     admin_auth_configured |-> settings.admin_api_key # None])

AdminEndpoints == {"list_sessions", "get_session", "get_config"}

\* An admin request: the dependency first, then the endpoint.
admin_request(endpoint, x_api_key, session_id, net) ==
  LET auth == verify_admin_auth(x_api_key) IN
  IF auth.exc = "HTTPException"
    THEN AdminResponse(auth.status, "HTTPException", auth.detail, NoBody)
  ELSE IF auth.exc # "none"
    THEN AdminResponse(500, "unhandled", auth.exc, NoBody)
  ELSE CASE endpoint = "list_sessions" -> list_sessions
         [] endpoint = "get_session" -> get_session(session_id, net)
         [] endpoint = "get_config" -> get_config

----------------------------------------------------------------------------
(* The service: configurations, requests and the actions.                   *)

\* Text written character by character.
EmailAB == <<"a", "@", "b">>
EmailBB == <<"b", "@", "b">>
DomainB == <<"@", "b">>

\* The agent mappings of the configurations: empty; a direct, a domain and
\* a default entry; a direct entry with an empty agent id beside a default
\* entry; a domain entry alone.
Mappings ==
  { << >>,
    (EmailAB :> "agent-direct") @@ (DomainB :> "agent-domain")
       @@ (DefaultKey :> "agent-default"),
    (EmailAB :> "") @@ (DefaultKey :> "agent-default"),
    (DomainB :> "agent-domain") }

SettingsSet ==
  [webhook_bearer_token : {None, Some(<<"tok">>)},
   webhook_auth_required : BOOLEAN,
   linear_webhook_secret : {None, Some(<<"s1">>)},
   agent_mapping : Mappings,
   kilo_cloud_enabled : BOOLEAN,
   kilo_api_key : {None, Some(<<"key">>)},
   admin_api_key : {None}]

ActionInputs ==
  {None, Some("create"), Some("update"), Some("remove"), Some("archive")}
TypeInputs == {None, Some("Issue"), Some("Comment"), Some("Document")}
AssigneeInputs == {None, Some(<< >>), Some(EmailAB), Some(EmailBB)}
DataInputs ==
  {DataOf("absent"), DataOf("scalar"), DataOf("dict")}
    \cup {IssueOf(<<"T", "-", "1">>, <<"F", "x", "!">>, None, a, None) :
            a \in AssigneeInputs}

Bodies ==
  {InvalidJsonBody, NotMappingBody, UndecodableBody}
    \cup {BodyOf("object", a, t, d) :
            a \in ActionInputs, t \in TypeInputs, d \in DataInputs}

AuthorizationInputs ==
  {None, Some(<<"Bearer", " ", "tok">>), Some(<<"Bearer", " ", "bad">>),
   Some(<<"Bearer", " ", "tok-e">>), Some(<<"tok">>)}

\* The signature headers tried with a body: none, the digest under the
\* secret, and that digest with one byte changed.
SignatureInputs(body) ==
  {None} \cup
  {Some(<<[key |-> <<"s1">>, msg |-> body, flip |-> f]>>) :
     f \in {"none", "low", "high"}}

HeadersOf(authorization, signature) ==
  ("authorization" :> authorization) @@ ("linear-signature" :> signature)

NoReq == [headers |-> HeadersOf(None, None), body |-> InvalidJsonBody,
          pending |-> FALSE]
NoCall == [fn |-> "none", args |-> << >>, done |-> FALSE, ret |-> Ret(FALSE)]

\* No submission in progress; no snapshot handed out.
NoTasks == << >>
NoSnapshot == [held |-> FALSE, entries |-> << >>]

Init ==
  /\ settings \in SettingsSet
  /\ started = FALSE
  /\ active_sessions = << >>
  /\ req = NoReq
  /\ resp = NoResp
  /\ call = NoCall
  /\ tasks = NoTasks
  /\ snapshot = NoSnapshot

\* main.py lifespan: the three global handlers are constructed.
Lifespan ==
  /\ ~started
  /\ ~req.pending
  /\ started' = TRUE
  /\ UNCHANGED <<settings, active_sessions, req, resp, call, tasks, snapshot>>

\* One webhook request, from its arrival to its response.
LinearWebhook ==
  /\ ~req.pending
  /\ \E a \in AuthorizationInputs, body \in Bodies, net \in NetOutcomes,
        notify \in NotifyOutcomes :
       \E sig \in SignatureInputs(body) :
         LET headers == HeadersOf(a, sig)
             out == linear_webhook(headers, body, net, notify) IN
         /\ req' = [headers |-> headers, body |-> body, pending |-> TRUE]
         /\ resp' = out.resp
         /\ active_sessions' = out.sessions
  /\ UNCHANGED <<settings, started, call, tasks, snapshot>>

\* The response is sent; the service waits for the next request.
ResponseSent ==
  /\ req.pending
  /\ req' = NoReq
  /\ resp' = NoResp
  /\ UNCHANGED <<settings, started, active_sessions, call, tasks, snapshot>>

Next == Lifespan \/ LinearWebhook \/ ResponseSent

Spec == Init /\ [][Next]_vars

----------------------------------------------------------------------------
(* The functions on their own: each specification draws the arguments of    *)
(* one function in its initial state and applies the function to them.      *)

DefaultSettings ==
  [webhook_bearer_token |-> None, webhook_auth_required |-> FALSE,
   linear_webhook_secret |-> None, agent_mapping |-> << >>,
   kilo_cloud_enabled |-> FALSE, kilo_api_key |-> None,
   admin_api_key |-> None]

CallOf(fn, args) == [fn |-> fn, args |-> args, done |-> FALSE, ret |-> Ret(FALSE)]

InitCall(fn, ArgSet) ==
  /\ settings = DefaultSettings
  /\ started = FALSE
  /\ active_sessions = << >>
  /\ req = NoReq
  /\ resp = NoResp
  /\ call \in {CallOf(fn, args) : args \in ArgSet}
  /\ tasks = NoTasks
  /\ snapshot = NoSnapshot

Return(fn, value) ==
  /\ call.fn = fn
  /\ ~call.done
  /\ call' = [call EXCEPT !.done = TRUE, !.ret = value]
  /\ UNCHANGED <<settings, started, active_sessions, req, resp, tasks, snapshot>>

\* verify_bearer_token(token, headers)
TokenInputs == {None, Some(<< >>), Some(<<"tok">>), Some(<<"bad">>)}
HeaderValues == SeqsUpTo(Atoms, MaxHeaderLen)
BearerArgs ==
  {<<t, HeadersOf(h, None)>> :
     t \in TokenInputs, h \in {None} \cup {Some(v) : v \in HeaderValues}}

CallVerifyBearerToken ==
  Return("verify_bearer_token", verify_bearer_token(call.args[1], call.args[2]))

SpecBearer == InitCall("verify_bearer_token", BearerArgs)
                /\ [][CallVerifyBearerToken]_vars

\* verify_signature(secret, headers, body)
SecretInputs == {None, Some(<< >>), Some(<<"s1">>), Some(<<"s2">>)}
SignedBodies ==
  {InvalidJsonBody,
   BodyOf("object", Some("update"), Some("Issue"), DataOf("dict")),
   BodyOf("object", Some("create"), Some("Issue"), DataOf("dict"))}
SignatureValues ==
  {None, Some(<< >>)} \cup
  {Some(<<[key |-> k, msg |-> m, flip |-> f]>>) :
     k \in {<<"s1">>, <<"s2">>}, m \in SignedBodies,
     f \in {"none", "low", "high"}}
SignatureArgs ==
  {<<k, HeadersOf(None, sig), b>> :
     k \in SecretInputs, sig \in SignatureValues, b \in SignedBodies}

CallVerifySignature ==
  Return("verify_signature",
         verify_signature(call.args[1], call.args[2], call.args[3]))

SpecSignature == InitCall("verify_signature", SignatureArgs)
                   /\ [][CallVerifySignature]_vars

\* should_process(webhook): every LinearWebhookRequest of the sampled data.
Webhooks ==
  [action : {None} \cup {Some(a) : a \in LinearAction},
   type : {None} \cup {Some(t) : t \in LinearWebhookType},
   data : {DataOf("none"), DataOf("dict")}
            \cup {d \in DataInputs : d.kind = "issue"}]

CallShouldProcess == Return("should_process", should_process(call.args[1]))

SpecClassifier == InitCall("should_process", {<<w>> : w \in Webhooks})
                    /\ [][CallShouldProcess]_vars

\* get_agent_for_assignee(mapping, email) and route_task(mapping, webhook).
EmailChars == {"a", "b", "@"}
Emails == SeqsUpTo(EmailChars, MaxEmailLen) \cup {DefaultKey}
RoutingKeys == {EmailAB, DomainB, DefaultKey, <<"@">>}
AgentIds == {"", "agent-1", "agent-2"}
AllMappings == UNION {[K -> AgentIds] : K \in SUBSET RoutingKeys}

CallGetAgent ==
  Return("get_agent_for_assignee",
         get_agent_for_assignee(call.args[1], call.args[2]))

SpecResolver ==
  InitCall("get_agent_for_assignee",
           {<<m, e>> : m \in AllMappings, e \in Emails})
    /\ [][CallGetAgent]_vars

AssignedIssue(assignee) ==
  [action |-> Some("update"), type |-> Some("Issue"),
   data |-> IssueOf(<<"T", "-", "1">>, <<"F", "x", "!">>, None, assignee, None)]

CallRouteTask == Return("route_task", route_task(call.args[1], call.args[2]))

SpecRouter ==
  InitCall("route_task",
           {<<m, AssignedIssue(a)>> :
              m \in AllMappings, a \in {None} \cup {Some(e) : e \in Emails}})
    /\ [][CallRouteTask]_vars

\* _generate_branch_name, the slug of the title: titles of up to MaxTailLen
\* characters, alone and after a run of word characters that brings them to
\* the length where the slug is cut.
MaxTailLen == 3
SlugTitles ==
  {[i \in 1..n |-> "x"] \o tail :
     n \in {0} \cup ((SlugMaxLen - 2)..SlugMaxLen),
     tail \in SeqsUpTo({"x", "T", " ", "-", "!"}, MaxTailLen)}

CallSafeTitle == Return("safe_title", safe_title(call.args[1]))

SpecSlug ==
  InitCall("safe_title", {<<t>> : t \in SlugTitles}) /\ [][CallSafeTitle]_vars

\* _build_task_prompt: issue dicts with each of the four fields empty or not.
PromptIssues ==
  LET texts == {<< >>, <<"T", "-", "1">>, <<"F", "x", "!">>}
      optionals == {None, Some(<< >>), Some(<<"x">>), Some(<<"F", "x", "!">>)}
  IN {[IssueOf(i, t, d, None, u) EXCEPT !.kind = "summary"] :
        i \in texts, t \in texts, d \in optionals, u \in optionals}

CallBuildTaskPrompt ==
  Return("build_task_prompt", build_task_prompt(call.args[1]))

SpecPrompt ==
  InitCall("build_task_prompt", {<<i>> : i \in PromptIssues})
    /\ [][CallBuildTaskPrompt]_vars

\* utils/telegram_auth.py.  A user id is absent, an int or a str.
UserInt(n) == Some([kind |-> "int", n |-> n, s |-> << >>])
UserStr(t) == Some([kind |-> "str", n |-> 0, s |-> t])

\* str.split(","): the pieces between the commas, empty pieces included.
RECURSIVE SplitComma(_, _, _, _)
SplitComma(s, i, piece, parts) ==
  IF i > Len(s)
    THEN Append(parts, piece)
    ELSE IF s[i] = ","
      THEN SplitComma(s, i + 1, << >>, Append(parts, piece))
      ELSE SplitComma(s, i + 1, Append(piece, s[i]), parts)

\* str.strip(): whitespace removed at both ends.
RECURSIVE Strip(_)
Strip(s) ==
  IF s = << >> THEN s
  ELSE IF Head(s) \in WhitespaceAtoms THEN Strip(Tail(s))
  ELSE IF s[Len(s)] \in WhitespaceAtoms THEN Strip(SubSeq(s, 1, Len(s) - 1))
  ELSE s

\* str(user_id): the decimal digits of an int, a str as it is.
user_id_str(user_id) ==
  LET RECURSIVE decimal(_)
      decimal(n) ==
        LET digit == <<"0", "1", "2", "3", "4", "5", "6", "7", "8", "9">>[(n % 10) + 1]
        IN IF n < 10 THEN <<digit>> ELSE Append(decimal(n \div 10), digit)
  IN IF user_id.kind = "int" THEN decimal(user_id.n) ELSE user_id.s

\* TelegramAuth._parse_allowed_users
parse_allowed_users(telegram_allowed_users) ==
  IF telegram_allowed_users = << >> THEN {}
  ELSE LET pieces == SplitComma(telegram_allowed_users, 1, << >>, << >>)
       IN {Strip(pieces[i]) : i \in DOMAIN pieces} \ {<< >>}

\* is_user_allowed with the missing id denied before the list is looked at.
is_user_allowed_denies_missing_first(allowed_users, user_id) ==
  IF user_id = None THEN FALSE
  ELSE IF allowed_users = {} THEN TRUE
  ELSE user_id_str(Val(user_id)) \in allowed_users

\* TelegramAuth.is_user_allowed, allowed_users being self._allowed_users
is_user_allowed(allowed_users, user_id) ==
  IF allowed_users = {} THEN TRUE
  ELSE IF user_id = None THEN FALSE
  ELSE user_id_str(Val(user_id)) \in allowed_users

\* TelegramAuth.require_auth
require_auth(allowed_users, user_id) ==
  IF ~is_user_allowed(allowed_users, user_id)
    THEN Raise("PermissionError")
    ELSE Ret(TRUE)

\* TELEGRAM_ALLOWED_USERS of up to MaxAllowLen characters, and the ids the
\* two functions are asked about.
MaxAllowLen == 3

CallIsUserAllowed ==
  Return("is_user_allowed",
         Ret(is_user_allowed(parse_allowed_users(call.args[1]), call.args[2])))

CallRequireAuth ==
  Return("require_auth",
         require_auth(parse_allowed_users(call.args[1]), call.args[2]))

AuthArgs ==
  LET configured == SeqsUpTo({"1", "2", ",", " "}, MaxAllowLen)
      user_ids == {None, UserInt(1), UserInt(2), UserInt(12), UserInt(21),
                   UserStr(<< >>), UserStr(<<"1">>), UserStr(<<"1", "2">>),
                   UserStr(<<" ", "1">>), UserStr(<<"1", ",", "2">>)}
  IN {<<a, u>> : a \in configured, u \in user_ids}

SpecAuth ==
  /\ InitCall("is_user_allowed", AuthArgs) \/ InitCall("require_auth", AuthArgs)
  /\ [][CallIsUserAllowed \/ CallRequireAuth]_vars

\* The admin endpoints: the configured admin key, the X-API-Key header of
\* the request, before and after startup.
AdminKeyInputs == {None, Some(<< >>), Some(<<"tok">>), Some(<<"tok-e">>)}
ApiKeyHeaders ==
  {None, Some(<< >>), Some(<<"tok">>), Some(<<"bad">>), Some(<<"tok-e">>),
   Some(<<"tok", "bad">>)}
AdminSettings ==
  {[DefaultSettings EXCEPT !.admin_api_key = k, !.kilo_cloud_enabled = e] :
     k \in AdminKeyInputs, e \in BOOLEAN}
AdminSessionIds == {<<LocalPrefix, "x">>, <<"remote-1">>}

AdminInit ==
  /\ settings \in AdminSettings
  /\ started \in BOOLEAN
  /\ active_sessions = << >>
  /\ req = NoReq
  /\ resp = NoResp
  /\ call \in {CallOf(e, <<k, id, net>>) :
                 e \in AdminEndpoints, k \in ApiKeyHeaders,
                 id \in AdminSessionIds, net \in NetOutcomes}
  /\ tasks = NoTasks
  /\ snapshot = NoSnapshot

AdminRequest ==
  /\ call.fn \in AdminEndpoints
  /\ ~call.done
  /\ call' = [call EXCEPT !.done = TRUE,
                          !.ret = admin_request(call.fn, call.args[1],
                                                call.args[2], call.args[3])]
  /\ UNCHANGED <<settings, started, active_sessions, req, resp, tasks, snapshot>>

SpecAdmin == AdminInit /\ [][AdminRequest]_vars

----------------------------------------------------------------------------
(* The session tracker: AgentRouter from the try block of submit_task on,   *)
(* with the callers of get_active_sessions and check_session_status.  A     *)
(* submission starts with the repository and the base branch at hand; in    *)
(* cloud mode it is suspended while the POST is in flight, and other        *)
(* coroutines run meanwhile.                                                *)

\* The number of submissions that may be in progress together.
NumTasks == 2

\* The agent mappings of the tracker: a direct and a domain entry; a direct
\* and a default entry.  Every assignee of TrackerWebhooks resolves to an
\* agent under both.
TrackerMappings ==
  { (EmailAB :> "agent-1") @@ (DomainB :> "agent-2"),
    (EmailAB :> "agent-2") @@ (DefaultKey :> "agent-1") }

TrackerSettings ==
  {[DefaultSettings EXCEPT !.kilo_cloud_enabled = e, !.kilo_api_key = k,
                           !.agent_mapping = m] :
     e \in BOOLEAN, k \in {None, Some(<< >>), Some(<<"key">>)},
     m \in TrackerMappings}

\* The events that reach the router: assigned issues, parsed and classified
\* as processable.
TrackerWebhooks ==
  {[action |-> Some("update"), type |-> Some("Issue"),
    data |-> IssueOf(i, <<"F", "x", "!">>, None, Some(a), None)] :
     i \in {<<"T", "-", "1">>, <<"T", "-", "2">>}, a \in {EmailAB, EmailBB}}

TrackerAgents == {"agent-1", "agent-2"}
IssueSummaries == {get_issue_summary(w) : w \in TrackerWebhooks}
RepoInputs == {"repo-1"}
BaseBranchInputs == {"develop"}
TrackerNetOutcomes == NetOutcomes \cup {[kind |-> "ok", id |-> "remote-2"]}

\* The ids asked of the status query.
StatusIds ==
  {<<LocalPrefix, hash32(build_task_prompt(i))>> : i \in IssueSummaries}
    \cup {<<"remote-1">>, <<"remote-2">>, <<LocalPrefix>>, <<"Local-", "x">>,
          << >>}

\* KiloCloudClient on its own: create_session and get_session_status under
\* every client configuration.
ClientInit ==
  /\ settings \in TrackerSettings
  /\ started = FALSE
  /\ active_sessions = << >>
  /\ req = NoReq
  /\ resp = NoResp
  /\ call \in {CallOf("create_session", <<build_task_prompt(i), b, net>>) :
                 i \in IssueSummaries, b \in {generate_branch_name(j) : j \in IssueSummaries},
                 net \in TrackerNetOutcomes}
              \cup {CallOf("get_session_status", <<id, net>>) :
                      id \in StatusIds, net \in TrackerNetOutcomes}
  /\ tasks = NoTasks
  /\ snapshot = NoSnapshot

CallCreateSession ==
  Return("create_session",
         create_session(call.args[1], call.args[2], call.args[3]))

CallGetSessionStatus ==
  Return("get_session_status", get_session_status(call.args[1], call.args[2]))

SpecClient == ClientInit /\ [][CallCreateSession \/ CallGetSessionStatus]_vars

\* What submit_task returns, before it has returned anything.
NoSubmission ==
  [exc |-> "none", success |-> FALSE, session |-> NoSession, error |-> "",
   agent_id |-> "", issue |-> DataOf("empty"), sessions |-> << >>,
   posted |-> FALSE, sent |-> << >>]

\* A coroutine of submit_task: its arguments and, once its try block has
\* run, the answer of the remote API it met and what it returns; replaced
\* is the entry its write displaced, if any.
IdleTask ==
  [pc |-> "idle", agent_id |-> "", issue |-> DataOf("empty"), repo |-> "",
   base_branch |-> "", net |-> [kind |-> "none", id |-> ""],
   result |-> NoSubmission, replaced |-> None]

\* The entry a caller reads in its snapshot under key k.
SnapshotEntry(k) ==
  IF snapshot.entries[k].shared THEN active_sessions[k]
  ELSE snapshot.entries[k].own

\* A submission runs its try block to the end: the result is kept in the
\* task, the table is written by one assignment.
Finish(t, agent_id, issue_data, repo, base_branch, net) ==
  LET out == submit_task_try(agent_id, issue_data, repo,
                             generate_branch_name(issue_data), base_branch, net)
  IN
  /\ tasks' = [tasks EXCEPT ![t] =
       [pc |-> "done", agent_id |-> agent_id, issue |-> issue_data,
        repo |-> repo, base_branch |-> base_branch, net |-> net,
        result |-> out,
        replaced |-> IF out.success
                       THEN DictGet(active_sessions, out.session.session_id)
                       ELSE None]]
  /\ active_sessions' = out.sessions

\* TrackerQuiet for a handler that may be suspended between the return of
\* submit_task and its reading of the table.
TrackerQuiet_handler_suspends ==
  /\ call = NoCall
  /\ ~snapshot.held
  /\ \A t \in DOMAIN tasks : tasks[t].pc # "answered"

\* No coroutine is in a stretch of code that runs without suspending: no
\* submission is between its try block and its return, no caller is at work
\* on a snapshot, no status query is being answered.
TrackerQuiet ==
  /\ call = NoCall
  /\ ~snapshot.held
  /\ \A t \in DOMAIN tasks : tasks[t].pc \notin {"done", "answered"}

\* A submission is made for the routing result of an event (main.py: the
\* agent and the issue summary route_task returned).
\* Local mode: create_session does not suspend, the try block runs in one go.
SubmitLocal ==
  /\ TrackerQuiet
  /\ LocalMode
  /\ \E t \in DOMAIN tasks, w \in TrackerWebhooks,
        r \in RepoInputs, b \in BaseBranchInputs :
       LET routing_result == route_task(settings.agent_mapping, w) IN
       /\ tasks[t].pc = "idle"
       /\ routing_result.routed
       /\ Finish(t, Val(routing_result.agent_id), routing_result.issue, r, b,
                 [kind |-> "none", id |-> ""])
  /\ UNCHANGED <<settings, started, req, resp, call, snapshot>>

\* Cloud mode: the submission sends the POST and is suspended.
SubmitCloudPost ==
  /\ TrackerQuiet
  /\ ~LocalMode
  /\ \E t \in DOMAIN tasks, w \in TrackerWebhooks,
        r \in RepoInputs, b \in BaseBranchInputs :
       LET routing_result == route_task(settings.agent_mapping, w) IN
       /\ tasks[t].pc = "idle"
       /\ routing_result.routed
       /\ tasks' = [tasks EXCEPT ![t] =
            [IdleTask EXCEPT !.pc = "awaiting",
                             !.agent_id = Val(routing_result.agent_id),
                             !.issue = routing_result.issue,
                             !.repo = r, !.base_branch = b]]
  /\ UNCHANGED <<settings, started, active_sessions, req, resp, call, snapshot>>

\* Cloud mode: the answer (or the failure) of the POST arrives.
SubmitCloudAnswer ==
  /\ TrackerQuiet
  /\ ~LocalMode
  /\ \E t \in DOMAIN tasks, net \in TrackerNetOutcomes :
       /\ tasks[t].pc = "awaiting"
       /\ Finish(t, tasks[t].agent_id, tasks[t].issue, tasks[t].repo,
                 tasks[t].base_branch, net)
  /\ UNCHANGED <<settings, started, req, resp, call, snapshot>>

\* linear_webhook after submit_task has returned to it: the routing result
\* the submission was made for, and the response with the table it leaves.
\* The branch of the response is read from the table as it is when the
\* handler runs on (agent_router.active_sessions.get(session_id, {})).
TaskResponse(t, notify) ==
  submission_response(NoWebhook,
    [NoRouting EXCEPT !.routed = TRUE, !.agent_id = Some(tasks[t].agent_id),
                      !.issue = tasks[t].issue],
    <<"submit_task">>, [tasks[t].result EXCEPT !.sessions = active_sessions],
    notify)

\* The caller of submit_task has its result: after a success it awaits the
\* notifier, which returns or raises, and the response is made.  The
\* notifier does not suspend.
SubmitAnswered ==
  /\ \E t \in DOMAIN tasks, notify \in NotifyOutcomes :
       /\ tasks[t].pc = "done"
       /\ tasks' = [tasks EXCEPT ![t].pc = "answered"]
       /\ resp' = TaskResponse(t, notify).resp
       /\ active_sessions' = TaskResponse(t, notify).sessions
  /\ UNCHANGED <<settings, started, req, call, snapshot>>

\* The response is sent; the coroutine is gone.
SubmitReturned ==
  /\ \E t \in DOMAIN tasks :
       /\ tasks[t].pc = "answered"
       /\ tasks' = [tasks EXCEPT ![t] = IdleTask]
  /\ resp' = NoResp
  /\ UNCHANGED <<settings, started, active_sessions, req, call, snapshot>>

\* A caller takes a snapshot of the table (GET /sessions: list_sessions).
ListSessions ==
  /\ TrackerQuiet
  /\ snapshot' = get_active_sessions
  /\ UNCHANGED <<settings, started, active_sessions, req, resp, call, tasks>>

\* The caller is done with its snapshot.
SnapshotDropped ==
  /\ snapshot.held
  /\ snapshot' = NoSnapshot
  /\ UNCHANGED <<settings, started, active_sessions, req, resp, call, tasks>>

\* A status query (GET /sessions/{id}: get_session, check_session_status).
CheckSessionStatus ==
  /\ TrackerQuiet
  /\ \E id \in StatusIds, net \in TrackerNetOutcomes :
       call' = [fn |-> "check_session_status", args |-> <<id>>, done |-> TRUE,
                ret |-> check_session_status(id, net)]
  /\ UNCHANGED <<settings, started, active_sessions, req, resp, tasks, snapshot>>

\* The status query has returned.
StatusReturned ==
  /\ call.fn = "check_session_status"
  /\ call' = NoCall
  /\ UNCHANGED <<settings, started, active_sessions, req, resp, tasks, snapshot>>

TrackerInit ==
  /\ settings \in TrackerSettings
  /\ started = TRUE
  /\ active_sessions = << >>
  /\ req = NoReq
  /\ resp = NoResp
  /\ call = NoCall
  /\ tasks = [t \in 1..NumTasks |-> IdleTask]
  /\ snapshot = NoSnapshot

TrackerNext ==
  \/ SubmitLocal \/ SubmitCloudPost \/ SubmitCloudAnswer
  \/ SubmitAnswered \/ SubmitReturned
  \/ ListSessions \/ SnapshotDropped
  \/ CheckSessionStatus \/ StatusReturned

SpecTracker == TrackerInit /\ [][TrackerNext]_vars

\* A caller of get_active_sessions that changes what it was given.

\* The dict a caller puts into its snapshot.
CallerDict == [agent_id |-> "caller"]

\* The caller binds a key of its snapshot to a dict of its own.
SnapshotSetKey ==
  /\ snapshot.held
  /\ \E k \in {Some(<<"remote-1">>), Some(<<"extra">>)} :
       snapshot' = [snapshot EXCEPT !.entries =
         [j \in DOMAIN snapshot.entries \cup {k} |->
            IF j = k THEN [shared |-> FALSE, own |-> CallerDict]
            ELSE snapshot.entries[j]]]
  /\ UNCHANGED <<settings, started, active_sessions, req, resp, call, tasks>>

\* The caller removes a key from its snapshot.
SnapshotDelKey ==
  /\ snapshot.held
  /\ \E k \in DOMAIN snapshot.entries :
       snapshot' = [snapshot EXCEPT !.entries =
         [j \in DOMAIN snapshot.entries \ {k} |-> snapshot.entries[j]]]
  /\ UNCHANGED <<settings, started, active_sessions, req, resp, call, tasks>>

\* The caller assigns to a field of an entry of its snapshot.  The entry is
\* the dict object itself: when it is the one the table holds, the table's
\* entry changes with it.
SnapshotSetField ==
  /\ snapshot.held
  /\ \E k \in DOMAIN snapshot.entries :
       IF snapshot.entries[k].shared
         THEN /\ active_sessions' =
                   [active_sessions EXCEPT ![k].agent_id = "tampered"]
              /\ UNCHANGED snapshot
         ELSE /\ snapshot' =
                   [snapshot EXCEPT !.entries[k].own.agent_id = "tampered"]
              /\ UNCHANGED active_sessions
  /\ UNCHANGED <<settings, started, req, resp, call, tasks>>

SnapshotInit ==
  /\ settings \in TrackerSettings
  /\ started = TRUE
  /\ active_sessions = << >>
  /\ req = NoReq
  /\ resp = NoResp
  /\ call = NoCall
  /\ tasks = <<IdleTask>>
  /\ snapshot = NoSnapshot

SnapshotNext ==
  \/ SubmitLocal \/ SubmitCloudPost \/ SubmitCloudAnswer
  \/ SubmitAnswered \/ SubmitReturned
  \/ ListSessions \/ SnapshotDropped
  \/ SnapshotSetKey \/ SnapshotDelKey \/ SnapshotSetField

SpecSnapshot == SnapshotInit /\ [][SnapshotNext]_vars

----------------------------------------------------------------------------
(* The claims.                                                              *)

Range(f) == {f[i] : i \in DOMAIN f}

\* A webhook request has been handled by the started service.
Handled == req.pending /\ started

\* The calls a handler makes after the two verifications.
AfterVerification ==
  {"parse_payload", "should_process", "route_task", "submit_task",
   "notify_issue_assigned"}

\* One of the three routing keys of an e-mail is a key of the mapping.
KeyMatches(agent_mapping, email) ==
  \/ email \in DOMAIN agent_mapping
  \/ <<"@">> \o SplitAtLast(email) \in DOMAIN agent_mapping
  \/ DefaultKey \in DOMAIN agent_mapping

\* C1: with the remote agent API disabled, a request that passes the
\* verifications, parses as an Issue create/update and whose assignee e-mail
\* resolves to an agent is answered 202, status "routed", session mode
\* "local".  (The claim as stated; the code answers such a request 500.)
C1_HappyPathAnswered202 ==
  LET parsed == parse_payload(req.body)
      email == get_assignee_email(parsed.val) IN
  ( /\ Handled
    /\ ~settings.kilo_cloud_enabled
    /\ verify_request(req.headers, req.body).pass
    /\ parsed.exc = "none"
    /\ parsed.val.type = Some("Issue")
    /\ parsed.val.action \in {Some("create"), Some("update")}
    /\ ~Falsy(email)
    /\ ~FalsyStr(get_agent_for_assignee(settings.agent_mapping, Val(email))) )
  => /\ resp.status = 202
     /\ resp.body_status = "routed"
     /\ resp.session.mode = "local"

\* C2: when the bearer-token check or the signature check returns false the
\* request is answered 401 and nothing after the verifications is called;
\* with a token and a secret both configured, a request goes on to parsing
\* only if both checks returned true.
C2_AuthFailureStops ==
  Handled =>
    LET tok == verify_bearer_token(settings.webhook_bearer_token, req.headers)
        sig == verify_signature(settings.linear_webhook_secret, req.headers,
                                req.body)
        rejected == /\ resp.status = 401
                    /\ resp.kind = "HTTPException"
                    /\ Range(resp.stages) \cap AfterVerification = {}
                    /\ ~resp.posted
                    /\ active_sessions = << >>
    IN
    /\ ("verify_bearer_token" \in Range(resp.stages) /\ tok = Ret(FALSE))
         => rejected /\ "verify_signature" \notin Range(resp.stages)
    /\ ("verify_signature" \in Range(resp.stages) /\ sig = Ret(FALSE))
         => rejected
    /\ ( /\ ~Falsy(settings.webhook_bearer_token)
         /\ ~Falsy(settings.linear_webhook_secret)
         /\ "parse_payload" \in Range(resp.stages) )
         => tok = Ret(TRUE) /\ sig = Ret(TRUE)

\* C2, witness: token and secret configured, the token accepted, the
\* signature refused, the request answered 401.
C2_Witness ==
  /\ Handled
  /\ ~Falsy(settings.webhook_bearer_token)
  /\ ~Falsy(settings.linear_webhook_secret)
  /\ verify_bearer_token(settings.webhook_bearer_token, req.headers) = Ret(TRUE)
  /\ resp.stages = <<"verify_bearer_token", "verify_signature">>
  /\ resp.status = 401

\* C3: verify_signature returns true exactly when no secret is configured or
\* the signature header is present and equals the hex HMAC-SHA256 of the body
\* under the secret, and false in every other case.  (The claim as stated;
\* the code raises TypeError for a signature outside ASCII.)
C3_SignatureTrueExactlyForHmac ==
  (call.fn = "verify_signature" /\ call.done) =>
    LET secret == call.args[1]
        signature == call.args[2]["linear-signature"]
        body == call.args[3] IN
    call.ret = Ret(\/ Falsy(secret)
                   \/ /\ signature # None
                      /\ Val(signature) = hexdigest(Val(secret), body))

\* C4: with a token t configured, verify_bearer_token returns true for
\* "Bearer " + t and "bearer " + t and false for every other header.  (The
\* claim as stated; the code accepts other separators and raises TypeError
\* for a token outside ASCII.)
C4_BearerTrueExactlyForSchemeSpaceToken ==
  (call.fn = "verify_bearer_token" /\ call.done /\ ~Falsy(call.args[1])) =>
    LET t == Val(call.args[1])
        header == call.args[2]["authorization"] IN
    call.ret = Ret(header \in {Some(<<"Bearer", " ">> \o t),
                               Some(<<"bearer", " ">> \o t)})

\* The Authorization header is missing or is not "<scheme> <token>" with
\* the scheme bearer.
MalformedAuthorization(header) ==
  \/ header = None
  \/ Len(Val(header)) # 3
  \/ LowerAtom(Val(header)[1]) # "bearer"
  \/ Val(header)[2] # " "
  \/ Val(header)[3] \in WhitespaceAtoms

\* C5: when webhook authentication is required, a request whose
\* Authorization header is missing or malformed is answered 401, whether or
\* not a bearer token is configured.  (The claim as stated; without a
\* configured token the code lets the request through.)
C5_AuthRequiredRejectsMissingHeader ==
  ( /\ Handled
    /\ settings.webhook_auth_required
    /\ MalformedAuthorization(req.headers["authorization"]) )
  => resp.status = 401

\* C6: should_process returns true if and only if the event is an Issue,
\* its action is create or update, and its payload carries an assignee with
\* a non-empty e-mail.  (The claim as stated; the code also returns true for
\* an assignee whose e-mail is empty.)
C6_ProcessIffAssigneeEmailNonEmpty ==
  (call.fn = "should_process" /\ call.done) =>
    LET w == call.args[1] IN
    call.ret[1] <=> /\ w.type = Some("Issue")
                    /\ w.action \in {Some("create"), Some("update")}
                    /\ w.data.kind = "issue"
                    /\ w.data.assignee # None
                    /\ Val(w.data.assignee) # << >>

\* C7: the reason is that of the first failing condition, in the order
\* entity type, action, assignee: an event that is not an Issue (or has no
\* type) gets the non-issue reason whatever its action and payload, and an
\* Issue with an action other than create/update gets the ignored-action
\* reason whether or not it is assigned.
C7_ReasonOfFirstFailingCondition ==
  (call.fn = "should_process" /\ call.done) =>
    LET w == call.args[1] IN
    /\ w.type # Some("Issue")
         => call.ret = <<FALSE, <<"Ignoring non-issue webhook: ", w.type>> >>
    /\ (w.type = Some("Issue") /\ w.action \notin {Some("create"), Some("update")})
         => call.ret = <<FALSE, <<"Ignoring action: ", w.action>> >>

\* C7, witness: a Comment event with an ignored action and an assigned issue
\* payload has been classified.
C7_Witness ==
  /\ call.fn = "should_process" /\ call.done
  /\ call.args[1].type = Some("Comment")
  /\ call.args[1].action = Some("delete")
  /\ call.args[1].data.kind = "issue"
  /\ call.args[1].data.assignee = Some(EmailAB)
  /\ ~call.ret[1]

\* The text after the last "@" of an e-mail (all of it when there is none).
AfterLastAt(email) ==
  LET ats == {i \in 1..Len(email) : email[i] = "@"}
      last == IF ats = {} THEN 0 ELSE CHOOSE i \in ats : \A j \in ats : j <= i
  IN SubSeq(email, last + 1, Len(email))

\* C8: get_agent_for_assignee returns mapping[email] if the e-mail is a key;
\* otherwise mapping["@" + text after the last "@"] if that is a key;
\* otherwise mapping["default"] if present; otherwise None.
C8_ThreeTierPrecedence ==
  (call.fn = "get_agent_for_assignee" /\ call.done) =>
    LET m == call.args[1]
        email == call.args[2]
        domain_key == <<"@">> \o AfterLastAt(email) IN
    call.ret = IF email \in DOMAIN m THEN Some(m[email])
               ELSE IF domain_key \in DOMAIN m THEN Some(m[domain_key])
               ELSE IF DefaultKey \in DOMAIN m THEN Some(m[DefaultKey])
               ELSE None

\* C8, witness: the direct, the domain and the default entry all match and
\* hold different agents; the direct one is returned.
C8_Witness ==
  /\ call.fn = "get_agent_for_assignee" /\ call.done
  /\ call.args[2] = EmailAB
  /\ {EmailAB, DomainB, DefaultKey} \subseteq DOMAIN call.args[1]
  /\ call.args[1][EmailAB] = "agent-1"
  /\ call.args[1][DomainB] = "agent-2"
  /\ call.args[1][DefaultKey] = ""
  /\ call.ret = Some("agent-1")

\* C9: for a routed event the routing method is the direct-email value
\* exactly when the e-mail itself is a key of the mapping, and the
\* domain/default value exactly when the agent came from the domain entry or
\* the default entry.
C9_RoutingMethodTellsDirectFromFallback ==
  (call.fn = "route_task" /\ call.done /\ call.ret.routed) =>
    LET m == call.args[1]
        email == Val(call.args[2].data.assignee)
        direct == email \in DOMAIN m
        fallback == /\ ~direct
                    /\ \/ <<"@">> \o AfterLastAt(email) \in DOMAIN m
                       \/ DefaultKey \in DOMAIN m IN
    /\ call.ret.routing_method = Some("email_direct") <=> direct
    /\ call.ret.routing_method = Some("domain_default") <=> fallback

\* C9, witness: an event routed by the default entry alone, recorded as
\* domain/default.
C9_Witness ==
  /\ call.fn = "route_task" /\ call.done /\ call.ret.routed
  /\ DOMAIN call.args[1] = {DefaultKey}
  /\ call.args[2].data.assignee = Some(EmailBB)
  /\ call.ret.routing_method = Some("domain_default")

\* C10 as stated, for an event whose assignee e-mail is not empty:
\* route_task reports routed exactly when one of the three keys of the
\* e-mail is in the mapping; when none is, the reason names the e-mail and
\* the request is answered 200 "not_routed" with that reason and nothing is
\* submitted.
C10_RoutedExactlyWhenKeyMatches ==
  ( /\ Handled
    /\ "route_task" \in Range(resp.stages)
    /\ ~Falsy(get_assignee_email(resp.webhook)) ) =>
    LET email == Val(get_assignee_email(resp.webhook))
        matches == KeyMatches(settings.agent_mapping, email) IN
    /\ resp.routing.routed <=> matches
    /\ ~matches =>
         /\ resp.routing.reason = Some(<<"No agent mapping for ", email>>)
         /\ resp.status = 200
         /\ resp.body_status = "not_routed"
         /\ resp.reason = resp.routing.reason
         /\ "submit_task" \notin Range(resp.stages)
         /\ ~resp.posted

\* C10, amended: route_task reports routed exactly when the assignee e-mail
\* is non-empty and the resolution returns a non-empty agent id; otherwise
\* the reason names the e-mail (or says that there is none when it is
\* empty), the request is answered 200 "not_routed" with that reason, and
\* nothing is submitted.
C10_RoutedExactlyWhenAgentResolved ==
  (Handled /\ "route_task" \in Range(resp.stages)) =>
    LET assignee_email == get_assignee_email(resp.webhook)
        resolves ==
          /\ ~Falsy(assignee_email)
          /\ ~FalsyStr(get_agent_for_assignee(settings.agent_mapping,
                                              Val(assignee_email))) IN
    /\ resp.routing.routed <=> resolves
    /\ ~resolves =>
         /\ resp.routing.reason =
              IF Falsy(assignee_email)
                THEN Some(<<"No assignee email">>)
                ELSE Some(<<"No agent mapping for ", Val(assignee_email)>>)
         /\ resp.status = 200
         /\ resp.kind = "JSONResponse"
         /\ resp.body_status = "not_routed"
         /\ resp.reason = resp.routing.reason
         /\ "submit_task" \notin Range(resp.stages)
         /\ ~resp.posted
         /\ active_sessions = << >>

\* C10, witness: no key of the mapping matches the assignee; the request is
\* answered 200 "not_routed" with the reason naming the e-mail.
C10_Witness ==
  /\ Handled
  /\ resp.stages[Len(resp.stages)] = "route_task"
  /\ ~KeyMatches(settings.agent_mapping, EmailAB)
  /\ resp.status = 200
  /\ resp.body_status = "not_routed"
  /\ resp.reason = Some(<<"No agent mapping for ", EmailAB>>)

\* A submission has just come out of its try block with a session.
Succeeded(t) == tasks[t].pc = "done" /\ tasks[t].result.success

FailedOutcomes == {"http_error", "network_error"}

\* The webhook response to the result a submission returned.
ResponseTo(t) == TaskResponse(t, "returned").resp

\* C12: whenever the call to the remote API fails, submit_task raises
\* nothing and returns success=false with the error and the agent id and
\* issue it was given, records no session, and the webhook is answered 500
\* with status "error", the error and the agent id.
C12_RemoteFailureReturnsError ==
  [][\A t \in DOMAIN tasks :
       ( /\ tasks[t].pc = "awaiting"
         /\ tasks'[t].pc = "done"
         /\ tasks'[t].net.kind \in FailedOutcomes ) =>
       /\ tasks'[t].result.exc = "none"
       /\ ~tasks'[t].result.success
       /\ tasks'[t].result.error =
            (IF tasks'[t].net.kind = "http_error" THEN "HTTPStatusError"
                                                  ELSE "RequestError")
       /\ tasks'[t].result.agent_id = tasks[t].agent_id
       /\ tasks'[t].result.issue = tasks[t].issue
       /\ active_sessions' = active_sessions
       /\ ResponseTo(t)'.status = 500
       /\ ResponseTo(t)'.kind = "JSONResponse"
       /\ ResponseTo(t)'.body_status = "error"
       /\ ResponseTo(t)'.error = tasks'[t].result.error
       /\ ResponseTo(t)'.agent_id = Some(tasks[t].agent_id)
    ]_vars

\* C12, witness: a submission whose POST failed has returned success=false
\* with the error, and the table is still empty.
C12_Witness ==
  \E t \in DOMAIN tasks :
    /\ tasks[t].pc = "done"
    /\ tasks[t].net.kind = "http_error"
    /\ tasks[t].result.sent # << >>
    /\ ~tasks[t].result.success
    /\ tasks[t].result.error = "HTTPStatusError"
    /\ active_sessions = << >>

\* The session-creation requests a submission sent to the remote API.
Posts(t) ==
  SelectSeq(tasks[t].result.sent, LAMBDA r : r = "POST /api/v1/sessions")

\* C13: no automatic retry: one submission sends the session-creation
\* request at most once, whether the call succeeds or fails.
C13_AtMostOnePost ==
  \A t \in DOMAIN tasks :
    tasks[t].pc = "done" =>
      /\ Len(Posts(t)) <= 1
      /\ tasks[t].net.kind \in FailedOutcomes => Len(Posts(t)) = 1

\* C13, witness: a submission whose POST met a network error has returned
\* after one request.
C13_Witness ==
  \E t \in DOMAIN tasks :
    /\ tasks[t].pc = "done"
    /\ tasks[t].net.kind = "network_error"
    /\ ~tasks[t].result.success
    /\ Posts(t) = <<"POST /api/v1/sessions">>

\* C14: the session of a submission has mode "local" exactly when it was made
\* without a network call (remote API disabled or without a key) and mode
\* "cloud" exactly when it is the answer of a successful POST; a submission
\* in local mode sends nothing.
C14_ModeTellsLocalFromCloud ==
  \A t \in DOMAIN tasks :
    tasks[t].pc = "done" =>
      LET r == tasks[t].result
          made == r.session
      IN
      /\ LocalMode => r.success /\ r.sent = << >> /\ made.mode = "local"
      /\ r.success =>
           /\ made.mode \in {"local", "cloud"}
           /\ made.mode = "local" <=> LocalMode
           /\ made.mode = "local" <=> r.sent = << >>
           /\ made.mode = "cloud" <=>
                (Posts(t) = <<"POST /api/v1/sessions">> /\ tasks[t].net.kind = "ok")

\* C14, witness: the remote API is enabled but has no usable key, and a
\* submission has returned a local session without sending anything.
C14_Witness ==
  \E t \in DOMAIN tasks :
    /\ tasks[t].pc = "done"
    /\ settings.kilo_cloud_enabled
    /\ Falsy(settings.kilo_api_key)
    /\ tasks[t].result.success
    /\ tasks[t].result.session.mode = "local"
    /\ tasks[t].result.sent = << >>

\* The status query is one the client answers itself.
AnsweredLocally(session_id) ==
  ~settings.kilo_cloud_enabled \/ StartsWith(session_id, LocalPrefix)

\* C15: a session made in local mode has an id that starts with the local
\* prefix; a status query for an id with that prefix, or for any id while the
\* remote API is disabled, returns status "pending" and mode "local" and sends
\* nothing; every other status query sends a request.
C15_LocalIdsAnsweredLocally ==
  call.done =>
    /\ (call.fn = "create_session" /\ LocalMode) =>
         /\ call.ret.exc = "none"
         /\ call.ret.val.mode = "local"
         /\ StartsWith(Val(call.ret.val.session_id), LocalPrefix)
    /\ call.fn = "get_session_status" =>
         /\ call.ret.sent # << >> <=> ~AnsweredLocally(call.args[1])
         /\ AnsweredLocally(call.args[1]) =>
              /\ call.ret.exc = "none"
              /\ call.ret.val.status = "pending"
              /\ call.ret.val.mode = "local"
              /\ call.ret.val.session_id = Some(call.args[1])

\* C15, witness: with the remote API enabled and keyed, the status of a
\* local id was asked for and answered "pending" without a request.
C15_Witness ==
  /\ call.done
  /\ call.fn = "get_session_status"
  /\ ~LocalMode
  /\ StartsWith(call.args[1], LocalPrefix)
  /\ Len(call.args[1]) = 2
  /\ call.ret.val.status = "pending"
  /\ call.ret.sent = << >>

C17_KeysAreKept ==
  [][DOMAIN active_sessions \subseteq DOMAIN active_sessions']_vars

\* C17, witness: the table holds two sessions and a later submission has
\* failed.
C17_Witness ==
  /\ Cardinality(DOMAIN active_sessions) >= 2
  /\ \E t \in DOMAIN tasks : tasks[t].pc = "done" /\ ~tasks[t].result.success

\* Submission t runs its try block to the end in this step.
Finishes(t) == tasks[t].pc # "done" /\ tasks'[t].pc = "done"

\* The entry submission t writes.
EntryOf(t) ==
  SessionEntry(tasks[t].agent_id, tasks[t].issue,
               generate_branch_name(tasks[t].issue), tasks[t].base_branch,
               tasks[t].repo)

\* C18: a submission that obtains a session id succeeds whether or not the
\* id is already in the table; after its write the table holds, for that id,
\* the entry of this submission alone, and every other key is as before.
C18_LastWriteWins ==
  [][\A t \in DOMAIN tasks :
       (Finishes(t) /\ (LocalMode \/ tasks'[t].net.kind = "ok")) =>
         LET sid == tasks'[t].result.session.session_id IN
         /\ tasks'[t].result.success
         /\ tasks'[t].result.exc = "none"
         /\ tasks'[t].result.error = ""
         /\ DOMAIN active_sessions' = DOMAIN active_sessions \cup {sid}
         /\ active_sessions'[sid] = EntryOf(t)'
         /\ \A k \in DOMAIN active_sessions \ {sid} :
              active_sessions'[k] = active_sessions[k]]_vars

\* C18, witness: a submission has succeeded with an id that another agent's
\* submission had recorded, and the table holds the later one.
C18_Witness ==
  \E t \in DOMAIN tasks :
    /\ Succeeded(t)
    /\ tasks[t].replaced # None
    /\ Val(tasks[t].replaced).agent_id # tasks[t].agent_id
    /\ active_sessions[tasks[t].result.session.session_id] = EntryOf(t)

\* An entry all of whose fields are those of one submission.
WholeEntry(k, e) ==
  /\ DOMAIN e = {"agent_id", "issue", "branch", "base_branch", "repo",
                 "created_at"}
  /\ e.agent_id \in TrackerAgents
  /\ e.issue \in IssueSummaries
  /\ e.branch = generate_branch_name(e.issue)
  /\ e.base_branch \in BaseBranchInputs
  /\ e.repo \in RepoInputs
  /\ e.created_at = "now"
  /\ StartsWith(Val(k), LocalPrefix) =>
       Val(k) = <<LocalPrefix, hash32(build_task_prompt(e.issue))>>

\* C19: under every interleaving of submissions, list calls and status
\* queries, each entry of the table, and each entry a snapshot shows, has all
\* of its fields from one single submission.
C19_EntriesAreWhole ==
  /\ \A k \in DOMAIN active_sessions : WholeEntry(k, active_sessions[k])
  /\ snapshot.held =>
       /\ DOMAIN snapshot.entries = DOMAIN active_sessions
       /\ \A k \in DOMAIN snapshot.entries : WholeEntry(k, SnapshotEntry(k))

\* C19, witness: a snapshot showing the entries of two issues is held while
\* a submission waits for the remote API.
C19_Witness ==
  /\ snapshot.held
  /\ \E t \in DOMAIN tasks : tasks[t].pc = "awaiting"
  /\ \E k \in DOMAIN snapshot.entries, u \in DOMAIN snapshot.entries :
       /\ k # u
       /\ SnapshotEntry(k).issue # SnapshotEntry(u).issue

\* An admin key is configured.
AdminKeyConfigured == ~Falsy(settings.admin_api_key)

\* The X-API-Key header of the admin request equals the configured key.
AdminKeyMatches ==
  /\ call.args[1] # None
  /\ Val(call.args[1]) = Val(settings.admin_api_key)

\* The admin request was turned away by the key check.
AdminRejected ==
  call.ret.kind = "HTTPException" /\ call.ret.status \in {401, 403}

\* C20: the admin endpoints are gated by the admin key: with a key
\* configured a request obtains a result only if its X-API-Key header equals
\* the key and is rejected otherwise (header missing or different); with no
\* key configured no request is rejected.
C20_AdminEndpointsGated ==
  (call.done /\ call.fn \in AdminEndpoints) =>
    IF AdminKeyConfigured
      THEN /\ call.ret.kind = "result" => AdminKeyMatches
           /\ ~AdminKeyMatches => AdminRejected
      ELSE ~AdminRejected

\* The request passed the bearer and the signature verification.
Verified == verify_request(req.headers, req.body).pass

\* The calls of the classifier, the router and the submission.
AfterParsing == {"should_process", "route_task", "submit_task"}

\* C21: every verified webhook request whose body is not valid JSON is
\* answered 400 and is never classified, routed or submitted.
C21_InvalidJsonAnswered400 ==
  (Handled /\ Verified /\ req.body.json \in {"invalid", "undecodable"}) =>
    /\ resp.status = 400
    /\ Range(resp.stages) \cap AfterParsing = {}

\* The body is valid JSON with a required field absent or mistyped: a value
\* that is not an object, an object without action or without entity type,
\* or an Issue event whose data is not a typed issue object.
RequiredFieldsMissing(body) ==
  \/ body.json = "array"
  \/ /\ body.json = "object"
     /\ \/ body.action = None
        \/ body.type = None
        \/ body.type = Some("Issue") /\ body.data.kind # "issue"

\* C22: every verified webhook request whose body is valid JSON with required
\* fields absent or mistyped fails parsing with the invalid-schema error and
\* is answered 400.
C22_InvalidSchemaAnswered400 ==
  (Handled /\ Verified /\ RequiredFieldsMissing(req.body)) =>
    /\ resp.status = 400
    /\ resp.detail = "Invalid payload structure"
    /\ Range(resp.stages) \cap AfterParsing = {}

\* The event of the request names no known entity type: the type is absent
\* or is none of Issue, Comment, Project, Cycle.
UnknownEntityType(body) ==
  /\ body.json = "object"
  /\ body.type = None \/ Val(body.type) \notin LinearWebhookType

\* C23: a request whose event has an entity type that is not a known one
\* never reaches agent resolution, submission or session recording.
C23_UnknownTypeNeverRouted ==
  (Handled /\ UnknownEntityType(req.body)) =>
    /\ Range(resp.stages) \cap {"route_task", "submit_task"} = {}
    /\ ~resp.routing.routed
    /\ ~resp.posted
    /\ resp.body_status # "routed"

\* C23, witness: a verified event of type "Document" with an assigned issue
\* and a creating action has been answered.
C23_Witness ==
  /\ Handled
  /\ Verified
  /\ req.body.json = "object"
  /\ req.body.type = Some("Document")
  /\ req.body.action = Some("create")
  /\ req.body.data.kind = "issue"
  /\ req.body.data.assignee = Some(EmailAB)
  /\ resp.status = 400
  /\ resp.stages[Len(resp.stages)] = "parse_payload"

\* A well-formed JSON event of an entity type other than Issue: an object
\* with a known action, a type, and an object as its data.
WellFormedNonIssue(body) ==
  /\ body.json = "object"
  /\ body.action # None /\ Val(body.action) \in LinearAction
  /\ body.type # None /\ body.type # Some("Issue")
  /\ body.data.kind \in {"dict", "issue"}

\* C24: parsing never raises on an unknown entity type: a well-formed event
\* whose entity type is not Issue is parsed, with its data kept as an opaque
\* map.
C24_NonIssueEventsParsedOpaque ==
  (Handled /\ Verified /\ WellFormedNonIssue(req.body)) =>
    /\ resp.status # 400
    /\ "should_process" \in Range(resp.stages)
    /\ resp.webhook.type = req.body.type
    /\ resp.webhook.data.kind = "dict"

\* C25: a webhook request handled before startup has constructed the three
\* components is answered 503 with no verification, parsing or submission
\* performed; startup is never undone, and once it has completed no webhook
\* request is answered 503.
C25_NotInitialized503 ==
  [][/\ started => started'
     /\ req'.pending =>
          IF started'
            THEN resp'.status # 503
            ELSE /\ resp'.status = 503
                 /\ resp'.kind = "HTTPException"
                 /\ resp'.detail = "Service not initialized"
                 /\ resp'.stages = << >>
                 /\ ~resp'.posted
                 /\ active_sessions' = active_sessions]_vars

\* C25, witness: before startup, a request with a wrong signature while a
\* webhook secret is configured has been answered 503.
C25_Witness ==
  /\ req.pending
  /\ ~started
  /\ settings.linear_webhook_secret # None
  /\ ~Verified
  /\ resp.status = 503

\* The handler answers submission t in this step.
Answers(t) == tasks[t].pc = "done" /\ tasks'[t].pc = "answered"

\* C26: notification is best-effort: when the notifier raises after a
\* successful submission, the request is still answered 202 with status
\* "routed", and the session that submission recorded stays in the table,
\* which is left unchanged.
C26_NotifierFailureStill202 ==
  [][\A t \in DOMAIN tasks :
       (Answers(t) /\ tasks[t].result.success /\ resp'.notify_failed) =>
         LET sid == tasks[t].result.session.session_id IN
         /\ resp'.status = 202
         /\ resp'.kind = "JSONResponse"
         /\ resp'.body_status = "routed"
         /\ resp'.agent_id = Some(tasks[t].agent_id)
         /\ resp'.session = tasks[t].result.session
         /\ resp'.branch = Some(EntryOf(t).branch)
         /\ active_sessions' = active_sessions
         /\ sid \in DOMAIN active_sessions'
         /\ active_sessions'[sid] = EntryOf(t)]_vars

\* C26, witness: a submission recorded a session, the notifier was awaited
\* and raised, and the request has its response.
C26_Witness ==
  \E t \in DOMAIN tasks :
    /\ tasks[t].pc = "answered"
    /\ tasks[t].result.success
    /\ resp.notified
    /\ resp.notify_failed
    /\ resp.status = 202
    /\ tasks[t].result.session.session_id \in DOMAIN active_sessions

\* C27: the slug transform of the branch name is idempotent: the slug of a
\* slug is that slug.
C27_SlugIdempotent ==
  (call.done /\ call.fn = "safe_title") => safe_title(call.ret) = call.ret

\* The place of a part of the prompt in the fixed order, by its label.
PartRank(part) ==
  CASE part[1] = "Task from Linear: " -> 1
    [] part[1] = "Title: " -> 2
    [] part[1] = "Description:\n" -> 3
    [] part[1] = "Linear URL: " -> 4
    [] OTHER -> 5

\* C28: the prompt is built in the order identifier, title, description,
\* url: the identifier and title parts are always there, the description
\* part exactly when the description is non-empty, the url part exactly when
\* the url is non-empty, and the parts there keep that order.
C28_PromptPartsInFixedOrder ==
  (call.done /\ call.fn = "build_task_prompt") =>
    LET issue == call.args[1]
        parts == call.ret
    IN
    /\ Len(parts) >= 2
    /\ parts[1] = <<"Task from Linear: ", issue.identifier>>
    /\ parts[2] = <<"Title: ", issue.title>>
    /\ (\E i \in DOMAIN parts : PartRank(parts[i]) = 3) <=> ~Falsy(issue.description)
    /\ (\E i \in DOMAIN parts : PartRank(parts[i]) = 4) <=> ~Falsy(issue.url)
    /\ \A i \in DOMAIN parts :
         /\ PartRank(parts[i]) = 3 => parts[i][2] = Val(issue.description)
         /\ PartRank(parts[i]) = 4 => parts[i][2] = Val(issue.url)
    /\ \A i, j \in DOMAIN parts :
         i < j => PartRank(parts[i]) < PartRank(parts[j])

\* C28, witness: a prompt was built for an issue with a description and a
\* url, and has its two optional parts.
C28_Witness ==
  /\ call.done
  /\ call.fn = "build_task_prompt"
  /\ ~Falsy(call.args[1].description)
  /\ ~Falsy(call.args[1].url)
  /\ \E i, j \in DOMAIN call.ret :
       i < j /\ PartRank(call.ret[i]) = 3 /\ PartRank(call.ret[j]) = 4

\* The request went through the whole pipeline up to the submission, in
\* order: service started, bearer and signature verification passed, body
\* parsed, event classified as processable, agent resolved.
FullPipelinePrefix ==
  LET verified == verify_request(req.headers, req.body)
      parsed == parse_payload(req.body)
      upto == verified.stages
                \o <<"parse_payload", "should_process", "route_task",
                     "submit_task">>
  IN
  /\ started
  /\ verified.pass
  /\ parsed.exc = "none"
  /\ should_process(parsed.val)[1]
  /\ route_task(settings.agent_mapping, parsed.val).routed
  /\ Len(resp.stages) >= Len(upto)
  /\ SubSeq(resp.stages, 1, Len(upto)) = upto

\* C29: submit_task is called, an outbound session-creation call is made and
\* the session table is written only in a request that went through the
\* whole pipeline prefix in order; the notifier is invoked only after the
\* session has been recorded; a request ending in 503, 401, 400 or 200
\* leaves the session table unchanged and makes no outbound call.
C29_SideEffectsOnlyAfterFullPrefix ==
  [][(~req.pending /\ req'.pending) =>
       /\ ("submit_task" \in Range(resp'.stages)
             \/ resp'.posted \/ active_sessions' # active_sessions)
            => FullPipelinePrefix'
       /\ resp'.notified =>
            /\ FullPipelinePrefix'
            /\ resp'.session.session_id \in DOMAIN active_sessions'
            /\ resp'.stages[Len(resp'.stages)] = "notify_issue_assigned"
       /\ resp'.status \in {503, 401, 400, 200} =>
            /\ active_sessions' = active_sessions
            /\ ~resp'.posted
            /\ ~resp'.notified
            /\ "submit_task" \notin Range(resp'.stages)]_vars

\* C29, witness: with a bearer token and a webhook secret configured, a
\* request passed both verifications, was parsed, classified and routed, and
\* submit_task was called.
C29_Witness ==
  /\ Handled
  /\ settings.webhook_bearer_token # None
  /\ settings.linear_webhook_secret # None
  /\ FullPipelinePrefix
  /\ resp.stages = <<"verify_bearer_token", "verify_signature",
                     "parse_payload", "should_process", "route_task",
                     "submit_task">>

\* The response is one of the documented outcomes of the webhook endpoint.
DocumentedOutcome(r) ==
  \/ r.status = 200 /\ r.kind = "JSONResponse"
       /\ r.body_status \in {"ignored", "not_routed"}
  \/ r.status = 202 /\ r.kind = "JSONResponse" /\ r.body_status = "routed"
  \/ r.status \in {400, 401, 503} /\ r.kind = "HTTPException"
  \/ r.status = 500 /\ r.kind = "JSONResponse" /\ r.body_status = "error"

\* C30: every webhook request ends with one response, and that response is
\* one of the documented outcomes: 200 ignored or not_routed, 202 routed,
\* 400, 401, 500 with status "error", or 503.
C30_OnlyDocumentedOutcomes ==
  req.pending => DocumentedOutcome(resp)

\* C31: in every reachable state each entry of the session table agrees with
\* the routing decision that produced it: its agent id is the agent the
\* three-tier resolution gives, under the configured mapping, for the
\* assignee email of its issue summary, and its branch is the branch name
\* derived from the identifier and title of its own issue.
C31_EntriesAgreeWithRouting ==
  \A k \in DOMAIN active_sessions :
    LET e == active_sessions[k] IN
    /\ e.issue.assignee # None
    /\ get_agent_for_assignee(settings.agent_mapping, Val(e.issue.assignee))
         = Some(e.agent_id)
    /\ e.branch = <<"l", "i", "n", "e", "a", "r", "/">>
                    \o LowerText(e.issue.identifier) \o <<"-">>
                    \o safe_title(e.issue.title)

\* C31, witness: the table holds the session of an assignee resolved by a
\* direct entry and the session of an assignee resolved by the default
\* entry, for different agents.
C31_Witness ==
  /\ DefaultKey \in DOMAIN settings.agent_mapping
  /\ \E k, u \in DOMAIN active_sessions :
       /\ active_sessions[k].issue.assignee = Some(EmailAB)
       /\ active_sessions[u].issue.assignee = Some(EmailBB)
       /\ active_sessions[k].agent_id = "agent-2"
       /\ active_sessions[u].agent_id = "agent-1"

\* C32: under every interleaving of concurrently handled requests, colliding
\* session ids included, the branch of a request's 202 response is the branch
\* derived from that request's own issue.
C32_ResponseBranchIsOwn ==
  [][\A t \in DOMAIN tasks :
       (Answers(t) /\ tasks[t].result.success) =>
         /\ resp'.status = 202
         /\ resp'.issue = tasks[t].issue
         /\ resp'.branch = Some(generate_branch_name(tasks[t].issue))]_vars

\* C32, witness: while another submission waits for the remote API, a
\* request whose submission took over the session id of another issue has
\* been answered 202 with its own branch.
C32_Witness ==
  \E t, u \in DOMAIN tasks :
    /\ tasks[t].pc = "answered"
    /\ tasks[u].pc = "awaiting"
    /\ tasks[t].result.success
    /\ tasks[t].replaced # None
    /\ Val(tasks[t].replaced).issue.identifier # tasks[t].issue.identifier
    /\ resp.status = 202
    /\ resp.branch = Some(generate_branch_name(tasks[t].issue))
    /\ resp.branch # Some(Val(tasks[t].replaced).branch)

\* C33: is_user_allowed is true for every user id, the missing one included,
\* when the allow-list is empty; with a non-empty list it is true exactly
\* for the ids whose string form is in the list and false for a missing id;
\* require_auth raises PermissionError exactly when is_user_allowed is false
\* and returns true otherwise.
C33_TelegramAuthorization ==
  call.done =>
    LET allowed_users == parse_allowed_users(call.args[1])
        user_id == call.args[2]
        allowed == \/ allowed_users = {}
                   \/ /\ user_id # None
                      /\ user_id_str(Val(user_id)) \in allowed_users
    IN /\ call.fn = "is_user_allowed" => call.ret = Ret(allowed)
       /\ call.fn = "require_auth" =>
            call.ret = IF allowed THEN Ret(TRUE) ELSE Raise("PermissionError")

\* C33, witness: with nothing but separators configured the missing id has
\* been let through by require_auth.
C33_Witness ==
  /\ call.done
  /\ call.fn = "require_auth"
  /\ call.args[1] = <<" ", ",", " ">>
  /\ call.args[2] = None
  /\ call.ret = Ret(TRUE)

\* C33, second witness: with "1,2" configured is_user_allowed has returned
\* true for the int 2.
C33_WitnessListed ==
  /\ call.done
  /\ call.fn = "is_user_allowed"
  /\ call.args = <<<<"1", ",", "2">>, UserInt(2)>>
  /\ call.ret = Ret(TRUE)

====
